---- MODULE Spec2Model ----
(***************************************************************************)
(* Andromeda ADs: the generative service (src/services/geminiService.ts)   *)
(* and the campaign graph store of the App component                       *)
(* (src/unnamed/part_001), modelled as two state machines.                 *)
(*                                                                         *)
(*   ServiceSpec  one stage function call at a time: runWithRetry's loop,  *)
(*                the stage's own try/catch, the carousel fan-out.         *)
(*   Spec         the node/edge store and the asynchronous handlers that   *)
(*                write it (expand, batch, remix, regenerate, promote,     *)
(*                simulate), interleaved at their await points.            *)
(*   LiveSpec     the handlers that set and clear loading flags, under     *)
(*                weak fairness of their resumptions.                      *)
(***************************************************************************)
EXTENDS Integers, Sequences, FiniteSets, TLC

VARIABLES
    call,        \* ServiceSpec: the stage call in progress
    nodes,       \* Spec: useState<NodeData[]>   (part_001:69)
    edges,       \* Spec: useState<Edge[]>       (part_001:80)
    ops,         \* Spec: the async handlers in flight, each with its closure
    now,         \* Spec: Date.now()
    simulating,  \* Spec: useState(false)        (part_001:82)
    started      \* Spec: user actions taken so far, by kind

serviceVars == <<call>>
graphVars == <<nodes, edges, ops, now, simulating, started>>
vars == <<call, nodes, edges, ops, now, simulating, started>>

Undefined == "undefined"

(***************************************************************************)
(* types.ts                                                                *)
(***************************************************************************)
CAROUSEL_EDUCATIONAL == "Carousel: Educational / Tips"
CAROUSEL_TESTIMONIAL == "Carousel: Testimonial Pile"
CAROUSEL_PANORAMA == "Carousel: Seamless Panorama"
CAROUSEL_PHOTO_DUMP == "Carousel: Photo Dump / Recap"
CAROUSEL_REAL_STORY == "Carousel: Real People Story (UGC)"
BIG_FONT == "Big Font / Text Heavy"
GMAIL_UX == "Gmail / Letter Style"
BILLBOARD == "Billboard Ad"
UGLY_VISUAL == "Ugly Visual / Problem Focus"
MS_PAINT == "MS Paint / Nostalgia"
REDDIT_THREAD == "Reddit Thread"
MEME == "Meme / Internet Culture"
LONG_TEXT == "Long Text / Story"
CARTOON == "Cartoon / Illustration"
BEFORE_AFTER == "Before & After"
WHITEBOARD == "Whiteboard / Diagram"
TWITTER_REPOST == "Twitter/X Repost"
PHONE_NOTES == "iPhone Notes App"
AESTHETIC_MINIMAL == "Aesthetic / Text Overlay"
STORY_POLL == "Story: Standard Poll (Yes/No)"
STORY_QNA == "Story: Ask Me Anything (Influencer Style)"
REELS_THUMBNAIL == "Reels Cover / Fake Video"
DM_NOTIFICATION == "DM Notification"
UGC_MIRROR == "UGC Mirror Selfie"
US_VS_THEM == "Us vs Them / Comparison Table"
GRAPH_CHART == "Graph / Data Visualization"
TIMELINE_JOURNEY == "Timeline / Roadmap"
CHAT_CONVERSATION == "Chat Bubble / WhatsApp"
REMINDER_NOTIF == "Lockscreen Reminder"
SOCIAL_COMMENT_STACK == "Social Comment Stack"
HANDHELD_TWEET == "Handheld Tweet Overlay"
POV_HANDS == "POV / Hands-on"
ANNOTATED_PRODUCT == "Annotated / Feature Breakdown"
SEARCH_BAR == "Search Bar UI"
BENEFIT_POINTERS == "Benefit Pointers / Anatomy"
COLLAGE_SCRAPBOOK == "Collage / Scrapbook"
CHECKLIST_TODO == "Checklist / To-Do"
STICKY_NOTE_REALISM == "Sticky Note / Handwritten"

\* enum CreativeFormat
CreativeFormat ==
    { CAROUSEL_EDUCATIONAL, CAROUSEL_TESTIMONIAL, CAROUSEL_PANORAMA,
      CAROUSEL_PHOTO_DUMP, CAROUSEL_REAL_STORY, BIG_FONT, GMAIL_UX, BILLBOARD,
      UGLY_VISUAL, MS_PAINT, REDDIT_THREAD, MEME, LONG_TEXT, CARTOON,
      BEFORE_AFTER, WHITEBOARD, TWITTER_REPOST, PHONE_NOTES, AESTHETIC_MINIMAL,
      STORY_POLL, STORY_QNA, REELS_THUMBNAIL, DM_NOTIFICATION, UGC_MIRROR,
      US_VS_THEM, GRAPH_CHART, TIMELINE_JOURNEY, CHAT_CONVERSATION,
      REMINDER_NOTIF, SOCIAL_COMMENT_STACK, HANDHELD_TWEET, POV_HANDS,
      ANNOTATED_PRODUCT, SEARCH_BAR, BENEFIT_POINTERS, COLLAGE_SCRAPBOOK,
      CHECKLIST_TODO, STICKY_NOTE_REALISM }

\* enum MarketAwareness
UNAWARE == "Unaware (No knowledge of problem)"
PROBLEM_AWARE == "Problem Aware (Knows problem, seeks solution)"
SOLUTION_AWARE == "Solution Aware (Knows solutions, comparing options)"
PRODUCT_AWARE == "Product Aware (Knows you, needs a deal)"
MOST_AWARE == "Most Aware (Ready to buy, needs urgency)"

MarketAwareness ==
    { UNAWARE, PROBLEM_AWARE, SOLUTION_AWARE, PRODUCT_AWARE, MOST_AWARE }

\* ProjectContext.marketAwareness is optional, and an any-typed value may hold
\* a string outside the enumeration.
AwarenessInputs == MarketAwareness \cup { Undefined, "Somewhat Aware" }

(***************************************************************************)
(* geminiService.ts: runWithRetry                                          *)
(***************************************************************************)

\* What one invocation of operation() (ai.models.generateContent) yields: an
\* error thrown, or a response.  An error carries status, code (0: absent)
\* and the markers its message contains; a response carries its text (by
\* kind), whether usageMetadata is present, and whether a part holds
\* inlineData.
Err(status, code, message) ==
    [type |-> "error", status |-> status, code |-> code, message |-> message,
     text |-> "missing", usage |-> FALSE, image |-> FALSE]

Response(text, usage, image) ==
    [type |-> "ok", status |-> 0, code |-> 0, message |-> {},
     text |-> text, usage |-> usage, image |-> image]

RateLimited == Err(429, 0, {})
RateLimitedByCode == Err(0, 429, {})
Overloaded == Err(503, 0, {})
Exhausted == Err(0, 0, {"RESOURCE_EXHAUSTED"})
BadRequest == Err(400, 400, {})
NetworkFailure == Err(0, 0, {})

ApiErrors ==
    { RateLimited, RateLimitedByCode, Overloaded, Exhausted, BadRequest,
      NetworkFailure }

\* isTransient, lines 16-22
isTransientAlways(error) == error.type = "error"

isTransientNo429(error) ==
    \/ error.status = 503
    \/ "503" \in error.message
    \/ "RESOURCE_EXHAUSTED" \in error.message

isTransient(error) ==
    \/ error.status = 429
    \/ error.code = 429
    \/ error.status = 503
    \/ "429" \in error.message
    \/ "503" \in error.message
    \/ "RESOURCE_EXHAUSTED" \in error.message

Pow2(n) == IF n = 0 THEN 1 ELSE IF n = 1 THEN 2 ELSE IF n = 2 THEN 4 ELSE 8

\* Math.random() * 500 lies in [0, 500): the two ends of the range.
Jitter == { 0, 499 }

\* A delay that does not grow with the attempt
retryDelayFlat(initialDelay, i, jitter) == initialDelay + jitter

\* line 26
retryDelay(initialDelay, i, jitter) == initialDelay * Pow2(i) + jitter

MaxRetriesExceeded == Err(0, 0, {"Max retries exceeded"})

(***************************************************************************)
(* geminiService.ts: getVisualEnhancers                                    *)
(***************************************************************************)
AppUiFormats ==
    { STORY_POLL, STORY_QNA, REELS_THUMBNAIL, DM_NOTIFICATION, TWITTER_REPOST,
      PHONE_NOTES, GMAIL_UX, CHAT_CONVERSATION, SOCIAL_COMMENT_STACK }

LoFiFormats ==
    { UGLY_VISUAL, REDDIT_THREAD, POV_HANDS, UGC_MIRROR, US_VS_THEM,
      HANDHELD_TWEET, STICKY_NOTE_REALISM, CAROUSEL_REAL_STORY }

MemeFormats == { MEME, MS_PAINT }

VectorFormatsWithMeme ==
    { CAROUSEL_EDUCATIONAL, GRAPH_CHART, CARTOON, WHITEBOARD, TIMELINE_JOURNEY,
      CHECKLIST_TODO, SEARCH_BAR, REMINDER_NOTIF, MS_PAINT }

VectorFormats ==
    { CAROUSEL_EDUCATIONAL, GRAPH_CHART, CARTOON, WHITEBOARD, TIMELINE_JOURNEY,
      CHECKLIST_TODO, SEARCH_BAR, REMINDER_NOTIF }

HighEndFormats == { BENEFIT_POINTERS }

AppUiDescriptor ==
    "style:mobile-app-screenshot, quality:high-fidelity-ui, texture:screen-pixel, vibe:authentic-social-media, perspective:flat-2d-screen-capture"
LoFiDescriptor ==
    "texture:grainy/noise, lighting:natural-window/harsh-flash, quality:amateur/raw/authentic, device:smartphone-camera-iphone, focus:sharp-subject-blurry-background"
MemeDescriptor ==
    "style:ms-paint/doodle, quality:low-res/pixelated, vibe:internet-humor"
VectorDescriptor ==
    "style:flat-vector/minimal-ui, shading:none, depth:2d, color:solid-hex-codes"
HighEndDescriptor ==
    "style:high-end-product-photography, lighting:studio-softbox, quality:8k, overlay:clean-white-graphics"
DefaultSuffix == ", quality:8k/masterpiece/sharp-focus"

\* The if-chain's conditions in source order, each with what it returns.
Chassis ==
    << [formats |-> AppUiFormats, descriptor |-> AppUiDescriptor],
       [formats |-> LoFiFormats, descriptor |-> LoFiDescriptor],
       [formats |-> MemeFormats, descriptor |-> MemeDescriptor],
       [formats |-> VectorFormats, descriptor |-> VectorDescriptor],
       [formats |-> HighEndFormats, descriptor |-> HighEndDescriptor] >>

\* The conditions of the chain that a format satisfies.
Matching(format) == { b \in 1..Len(Chassis) : format \in Chassis[b].formats }

Min(S) == CHOOSE x \in S : \A y \in S : x <= y

\* A chain whose descriptors are led by the style hint
getVisualEnhancersTinted(style, format) ==
    IF Matching(format) # {}
    THEN style \o ", " \o Chassis[Min(Matching(format))].descriptor
    ELSE style \o DefaultSuffix

\* The first condition that holds returns; none: the default.
getVisualEnhancers(style, format) ==
    IF Matching(format) # {}
    THEN Chassis[Min(Matching(format))].descriptor
    ELSE style \o DefaultSuffix

\* generateCreativeImage's switch: the formats that set isLoFi, isVector
ImageLoFi ==
    { STORY_QNA, STORY_POLL, UGC_MIRROR, STICKY_NOTE_REALISM, HANDHELD_TWEET,
      UGLY_VISUAL, REDDIT_THREAD, US_VS_THEM, POV_HANDS, MEME, MS_PAINT,
      CAROUSEL_REAL_STORY }

ImageVector ==
    { DM_NOTIFICATION, TWITTER_REPOST, GMAIL_UX, PHONE_NOTES, REMINDER_NOTIF,
      CHAT_CONVERSATION, SEARCH_BAR, CAROUSEL_EDUCATIONAL, GRAPH_CHART,
      TIMELINE_JOURNEY, CHECKLIST_TODO, WHITEBOARD, CARTOON, BIG_FONT }

\* lines 898-901
activeStyle(format) ==
    IF format \in ImageLoFi THEN "Raw, amateur, authentic"
    ELSE IF format \in ImageVector THEN "Flat, vector, minimal"
    ELSE "Professional, sharp"

(***************************************************************************)
(* geminiService.ts: the stage functions.  Each is given how its           *)
(* runWithRetry call settled: thrown (the error propagated) or a response. *)
(***************************************************************************)

\* INITIAL_PROJECT.productName, part_001:12
ProductName == "Zenith Focus Gummies"

\* The usageMetadata of a response that carries one.
Usage == [promptTokenCount |-> 3, candidatesTokenCount |-> 6]

\* response.usageMetadata?.promptTokenCount || 0
promptTokens(r) == IF r.usage THEN Usage.promptTokenCount ELSE 0
candidateTokens(r) == IF r.usage THEN Usage.candidatesTokenCount ELSE 0

GenResult(data, inputTokens, outputTokens) ==
    [threw |-> FALSE, data |-> data, inputTokens |-> inputTokens,
     outputTokens |-> outputTokens]

Raised(message) ==
    [threw |-> TRUE, data |-> message, inputTokens |-> 0, outputTokens |-> 0]

\* The kinds of response.text of a JSON stage:
\*   missing    no text (undefined or "")      malformed  JSON.parse throws
\*   complete   the shape the prompt asks for  empty      "[]" or "{}"
\*   short      one element or field too few   long       one element too many
\*   scalar     valid JSON that is no array (a string, a number)
JsonTexts ==
    { "missing", "malformed", "complete", "empty", "short", "long", "scalar" }

\* JSON.parse throws a SyntaxError
ParseThrows(r) == r.text = "malformed"

Items(prefix, n) == [j \in 1..n |-> prefix \o ToString(j)]

Array(items) == [isArray |-> TRUE, items |-> items]
NotArray == [isArray |-> FALSE, items |-> <<>>]

\* JSON.parse(response.text || "[]") where the prompt asks for `nominal` items
ParsedArray(r, prefix, nominal) ==
    CASE r.text = "complete" -> Array(Items(prefix, nominal))
      [] r.text = "short" -> Array(Items(prefix, nominal - 1))
      [] r.text = "long" -> Array(Items(prefix, nominal + 1))
      [] r.text = "scalar" -> NotArray
      [] OTHER -> Array(<<>>)

\* JSON.parse(response.text || "{}") as a record of the fields asked for:
\* a field is Undefined where the object lacks it.
\* In a short object the field `lacking` is the one left out.
ParsedObject(r, fields, lacking, value) ==
    [f \in fields |->
        CASE r.text \in { "complete", "long" } -> value \o f
          [] r.text = "short" /\ f # lacking -> value \o f
          [] OTHER -> Undefined]

ContextFields == { "productName", "productDescription", "targetAudience" }

\* analyzeLandingPageContext, lines 105-149
analyzeLandingPageContext(thrown, r) ==
    IF thrown \/ ParseThrows(r)
    THEN Raised("Could not analyze landing page content.")
    ELSE GenResult(ParsedObject(r, ContextFields, "productName", "page "), 0, 0)

\* analyzeImageContext, lines 152-202
analyzeImageContext(thrown, r) ==
    IF thrown \/ ParseThrows(r)
    THEN Raised("Could not analyze image.")
    ELSE GenResult(ParsedObject(r, ContextFields, "productName", "image "), 0, 0)

PersonaFallback == <<"The Ideal Customer">>

\* generatePersonas, lines 204-268
generatePersonas(thrown, r) ==
    IF thrown \/ ParseThrows(r)
    THEN GenResult(Array(PersonaFallback), 0, 0)
    ELSE GenResult(ParsedArray(r, "persona ", 3), promptTokens(r),
                   candidateTokens(r))

GenericStrategy == "Strategy: Focus on high-impact hooks."

awarenessStrategyMerged(marketAwareness) ==
    CASE marketAwareness = UNAWARE ->
           "Strategy: UNAWARE Audience. Do NOT mention the product or technical features in the hook. Focus on the symptom, a story, or a shocking fact. Bridge to the problem."
      [] marketAwareness = PROBLEM_AWARE ->
           "Strategy: PROBLEM AWARE Audience. Focus heavily on the pain point and agitation. Show empathy. 'Does your back hurt?'"
      [] marketAwareness = SOLUTION_AWARE ->
           "Strategy: SOLUTION AWARE Audience. Focus on mechanism. Why current solutions fail and why this new way is better. Comparison."
      [] marketAwareness \in { PRODUCT_AWARE, MOST_AWARE } ->
           "Strategy: PRODUCT AWARE Audience. They know you. Focus on the OFFER, the Deal, and overcoming hesitation."
      [] OTHER -> GenericStrategy

\* generateAngles' switch, lines 272-291
awarenessStrategy(marketAwareness) ==
    CASE marketAwareness = UNAWARE ->
           "Strategy: UNAWARE Audience. Do NOT mention the product or technical features in the hook. Focus on the symptom, a story, or a shocking fact. Bridge to the problem."
      [] marketAwareness = PROBLEM_AWARE ->
           "Strategy: PROBLEM AWARE Audience. Focus heavily on the pain point and agitation. Show empathy. 'Does your back hurt?'"
      [] marketAwareness = SOLUTION_AWARE ->
           "Strategy: SOLUTION AWARE Audience. Focus on mechanism. Why current solutions fail and why this new way is better. Comparison."
      [] marketAwareness = PRODUCT_AWARE ->
           "Strategy: PRODUCT AWARE Audience. They know you. Focus on the OFFER, the Deal, and overcoming hesitation."
      [] marketAwareness = MOST_AWARE ->
           "Strategy: MOST AWARE Audience. Urgency. Scarcity. 'Last chance'."
      [] OTHER -> GenericStrategy

AngleFallback == <<"Discover " \o ProductName>>

\* generateAngles, lines 270-337
generateAngles(thrown, r) ==
    IF thrown \/ ParseThrows(r)
    THEN GenResult(Array(AngleFallback), 0, 0)
    ELSE GenResult(ParsedArray(r, "headline ", 3), promptTokens(r),
                   candidateTokens(r))

ConceptFields ==
    { "visualScene", "visualStyle", "technicalPrompt", "copyAngle", "rationale" }

\* generateCreativeConcept, lines 341-413
generateCreativeConcept(angle, thrown, r) ==
    IF thrown \/ ParseThrows(r)
    THEN GenResult([visualScene |-> "Shot of " \o ProductName,
                    visualStyle |-> "Studio lighting",
                    technicalPrompt |-> "high quality",
                    copyAngle |-> angle, rationale |-> "Default"], 0, 0)
    ELSE GenResult(ParsedObject(r, ConceptFields, "visualStyle", "ai "), promptTokens(r),
                   candidateTokens(r))

\* The free-text verdicts the compliance prompt can get back.
ComplianceTexts ==
    { "missing", "COMPLIANT", "NON-COMPLIANT: unverifiable health claim",
      "Risky: calls out a personal attribute" }

\* result.includes("COMPLIANT")
IncludesCompliant(text) ==
    text \in { "COMPLIANT", "NON-COMPLIANT: unverifiable health claim" }

\* checkAdCompliance, lines 417-446 (it returns the string itself)
checkAdCompliance(thrown, r) ==
    IF thrown THEN GenResult("Check Failed", 0, 0)
    ELSE LET result == IF r.text = "missing" THEN "COMPLIANT" ELSE r.text
         IN  GenResult(IF IncludesCompliant(result) THEN "Safe" ELSE result,
                       0, 0)

CopyFields == { "primaryText", "headline", "cta" }

\* generateAdCopy, lines 448-533
generateAdCopy(concept, thrown, r) ==
    IF thrown \/ ParseThrows(r)
    THEN GenResult([primaryText |-> "Check out this product.",
                    headline |-> concept.copyAngle, cta |-> "Shop Now"], 0, 0)
    ELSE GenResult(ParsedObject(r, CopyFields, "primaryText", "ai "), promptTokens(r),
                   candidateTokens(r))

\* generateVisualStyle, lines 537-561
generateVisualStyle(thrown, r) ==
    IF thrown
    THEN GenResult("Professional studio lighting.", 0, 0)
    ELSE GenResult(IF r.text = "missing"
                   THEN "Studio lighting, clean background."
                   ELSE "ai visual vibe",
                   promptTokens(r), candidateTokens(r))

Null == "null"
DataUrl == "data:image/png;base64,AAAA"

\* callImageGen, lines 565-602
callImageGen(thrown, r) ==
    IF thrown
    THEN GenResult(Null, 0, 0)
    ELSE GenResult(IF r.image THEN DataUrl ELSE Null, promptTokens(r),
                   candidateTokens(r))

\* generateCarouselSlides, lines 924-1039: the slide prompts and the token
\* counts of the text call.
EducationalFallback ==
    << "CMD: Gen Slide. TEXT: Hook. STYLE: Flat Vector.",
       "CMD: Gen Slide. TEXT: Problem. STYLE: Flat Vector.",
       "CMD: Gen Slide. TEXT: Solution. STYLE: Flat Vector.",
       "CMD: Gen Slide. TEXT: Outcome. STYLE: Flat Vector." >>

VisualFallback ==
    [j \in 1..4 |-> "CMD: Gen Photo. SUBJECT: " \o ProductName]

SlidePrompt(format, t) ==
    IF format = CAROUSEL_EDUCATIONAL
    THEN "CMD: Gen Flat Vector Slide. CENTER TEXT: " \o t \o ". SPECS: "
         \o getVisualEnhancers("flat", format)
    ELSE "CMD: Generate Image. SCENE: " \o t \o ". TECH SPECS: "
         \o getVisualEnhancers("candid", format)

slidePrompts(format, thrown, r) ==
    LET fallback == IF format = CAROUSEL_EDUCATIONAL
                    THEN EducationalFallback ELSE VisualFallback
        parsed == ParsedArray(r, "slide ", 4)
    IN  IF thrown \/ ParseThrows(r) \/ ~parsed.isArray
        THEN fallback
        ELSE [j \in 1..Len(parsed.items) |->
                SlidePrompt(format, parsed.items[j])]

\* The counts are added after JSON.parse and before texts.map (lines 960-966)
slideTextTokens(thrown, r) ==
    IF thrown \/ ParseThrows(r)
    THEN [inputTokens |-> 0, outputTokens |-> 0]
    ELSE [inputTokens |-> promptTokens(r), outputTokens |-> candidateTokens(r)]

RECURSIVE SumField(_, _)
SumField(seq, field) ==
    IF seq = <<>> THEN 0
    ELSE Head(seq)[field] + SumField(Tail(seq), field)

\* The images pushed in the order the calls were listed, last first
RECURSIVE KeepImagesBackwards(_)
KeepImagesBackwards(results) ==
    IF results = <<>> THEN <<>>
    ELSE IF Head(results).data # Null
         THEN KeepImagesBackwards(Tail(results)) \o <<Head(results).data>>
         ELSE KeepImagesBackwards(Tail(results))

\* results.forEach(res => { if (res.data) images.push(res.data) })
RECURSIVE KeepImages(_)
KeepImages(results) ==
    IF results = <<>> THEN <<>>
    ELSE IF Head(results).data # Null
         THEN <<Head(results).data>> \o KeepImages(Tail(results))
         ELSE KeepImages(Tail(results))

\* lines 1042-1053: the join of the slide image calls
joinSlides(text, results) ==
    GenResult(KeepImages(results),
              text.inputTokens + SumField(results, "inputTokens"),
              text.outputTokens + SumField(results, "outputTokens"))

(***************************************************************************)
(* ServiceSpec: one stage call at a time                                   *)
(***************************************************************************)
JsonStages ==
    { "analyzeLandingPageContext", "analyzeImageContext", "generatePersonas",
      "generateAngles", "generateCreativeConcept", "generateAdCopy",
      "generateCarouselSlides" }

Stages ==
    JsonStages \cup
    { "checkAdCompliance", "generateVisualStyle", "generateCreativeImage" }

\* The responses a stage's model call can come back with.
ResponsesOf(stage) ==
    CASE stage \in JsonStages ->
           { Response(t, u, FALSE) : t \in JsonTexts, u \in BOOLEAN }
      [] stage = "checkAdCompliance" ->
           { Response(t, FALSE, FALSE) : t \in ComplianceTexts }
      [] stage = "generateVisualStyle" ->
           { Response(t, u, FALSE) : t \in { "missing", "complete" },
                                     u \in BOOLEAN }
      [] OTHER ->
           { Response("missing", u, img) : u, img \in BOOLEAN }

\* The formats a stage is called with (Undefined: it takes none).
FormatsOf(stage) ==
    CASE stage = "generateCreativeImage" -> CreativeFormat
      [] stage = "generateCarouselSlides" ->
           { CAROUSEL_EDUCATIONAL, CAROUSEL_TESTIMONIAL }
      [] OTHER -> { Undefined }

AwarenessOf(stage) ==
    IF stage = "generateAngles" THEN AwarenessInputs ELSE { Undefined }

\* runWithRetry's defaults (line 10) and callImageGen's arguments (line 584)
retriesOf(stage) == IF stage = "generateCreativeImage" THEN 2 ELSE 3
initialDelayOf(stage) == IF stage = "generateCreativeImage" THEN 2000 ELSE 1000

NoResult == GenResult(Undefined, 0, 0)

IdleCall ==
    [stage |-> "none", format |-> Undefined, marketAwareness |-> Undefined,
     retries |-> 0, initialDelay |-> 0, pc |-> "idle", i |-> 0,
     attempts |-> 0, log |-> <<>>, waits |-> <<>>, thrown |-> FALSE,
     settled |-> Response("missing", FALSE, FALSE), strategy |-> "",
     enhancers |-> "", prompts |-> <<>>, slides |-> <<>>,
     overtaken |-> FALSE, result |-> NoResult]

\* A stage function is entered: what it computes before its model call, and
\* the entry into runWithRetry's loop (i = 0).
StartCall ==
    /\ call.pc = "idle"
    /\ \E stage \in Stages :
       \E format \in FormatsOf(stage), awareness \in AwarenessOf(stage) :
          call' = [IdleCall EXCEPT
                     !.stage = stage, !.format = format,
                     !.marketAwareness = awareness,
                     !.retries = retriesOf(stage),
                     !.initialDelay = initialDelayOf(stage),
                     !.strategy = IF stage = "generateAngles"
                                  THEN awarenessStrategy(awareness) ELSE "",
                     !.enhancers =
                         IF stage = "generateCreativeImage"
                         THEN getVisualEnhancers(activeStyle(format), format)
                         ELSE "",
                     !.pc = "attempt"]
    /\ UNCHANGED graphVars

\* One pass through the loop body of runWithRetry (lines 12-33): operation()
\* is invoked and returns or throws.
RetryAttempt ==
    /\ call.pc = "attempt"
    /\ \E o \in ApiErrors \cup ResponsesOf(call.stage), jitter \in Jitter :
         LET c == [call EXCEPT !.attempts = @ + 1, !.log = Append(@, o)]
         IN  call' =
               IF o.type = "ok"
               THEN [c EXCEPT !.pc = "settled", !.settled = o]
               ELSE IF isTransient(o) /\ call.i # call.retries - 1
               THEN [c EXCEPT !.pc = "waiting",
                              !.waits = Append(@, retryDelay(call.initialDelay,
                                                             call.i, jitter))]
               ELSE [c EXCEPT !.pc = "settled", !.thrown = TRUE,
                              !.settled = o]
    /\ UNCHANGED graphVars

\* A wait after which the loop goes on without counting the attempt
RetryWaitUncounted ==
    /\ call.pc = "waiting"
    /\ call' = [call EXCEPT !.pc = "attempt"]
    /\ UNCHANGED graphVars

\* The delay elapses: continue with i + 1 (lines 28-29, 11, 35).
RetryWait ==
    /\ call.pc = "waiting"
    /\ call' = IF call.i + 1 < call.retries
               THEN [call EXCEPT !.i = @ + 1, !.pc = "attempt"]
               ELSE [call EXCEPT !.i = @ + 1, !.pc = "settled",
                                 !.thrown = TRUE,
                                 !.settled = MaxRetriesExceeded]
    /\ UNCHANGED graphVars

\* What the stage returns (or throws) once its model call has settled.
StageResult(c) ==
    CASE c.stage = "analyzeLandingPageContext" ->
           analyzeLandingPageContext(c.thrown, c.settled)
      [] c.stage = "analyzeImageContext" ->
           analyzeImageContext(c.thrown, c.settled)
      [] c.stage = "generatePersonas" -> generatePersonas(c.thrown, c.settled)
      [] c.stage = "generateAngles" -> generateAngles(c.thrown, c.settled)
      [] c.stage = "generateCreativeConcept" ->
           generateCreativeConcept("angle", c.thrown, c.settled)
      [] c.stage = "checkAdCompliance" ->
           checkAdCompliance(c.thrown, c.settled)
      [] c.stage = "generateAdCopy" ->
           generateAdCopy([copyAngle |-> "angle"], c.thrown, c.settled)
      [] c.stage = "generateVisualStyle" ->
           generateVisualStyle(c.thrown, c.settled)
      [] OTHER -> callImageGen(c.thrown, c.settled)

StageReturn ==
    /\ call.pc = "settled"
    /\ call.stage # "generateCarouselSlides"
    /\ call' = [call EXCEPT !.pc = "done", !.result = StageResult(call)]
    /\ UNCHANGED graphVars

Pending == [threw |-> FALSE, data |-> "pending", inputTokens |-> 0,
            outputTokens |-> 0]

\* lines 1044: every slide prompt gets its callImageGen, all dispatched
\* before any is awaited.  overtaken is no variable of the code: it records
\* that a slide's call completed while an earlier slide's was pending.
CarouselDispatch ==
    /\ call.pc = "settled"
    /\ call.stage = "generateCarouselSlides"
    /\ LET prompts == slidePrompts(call.format, call.thrown, call.settled)
       IN  call' = [call EXCEPT !.pc = "slides", !.prompts = prompts,
                                !.slides = [j \in 1..Len(prompts) |-> Pending]]
    /\ UNCHANGED graphVars

\* The image drawn for the j-th slide request: no two requests draw the
\* same image.
SlideImage(j) == DataUrl \o ToString(j)

\* How the j-th slide's callImageGen can settle: an image, no image, a
\* failed call.
SlideOutcomes(j) ==
    { [callImageGen(FALSE, Response("missing", TRUE, TRUE))
         EXCEPT !.data = SlideImage(j)],
      callImageGen(FALSE, Response("missing", TRUE, FALSE)),
      callImageGen(TRUE, BadRequest) }

SlideSettles ==
    /\ call.pc = "slides"
    /\ \E j \in 1..Len(call.slides) :
         /\ call.slides[j] = Pending
         /\ \E res \in SlideOutcomes(j) :
              call' = [call EXCEPT
                         !.slides[j] = res,
                         !.overtaken =
                             @ \/ \E e \in 1..(j - 1) :
                                    call.slides[e] = Pending]
    /\ UNCHANGED graphVars

\* Promise.all resolves (line 1045) and the results are folded (1047-1053).
CarouselJoin ==
    /\ call.pc = "slides"
    /\ \A j \in 1..Len(call.slides) : call.slides[j] # Pending
    /\ call' = [call EXCEPT
                  !.pc = "done",
                  !.result = joinSlides(slideTextTokens(call.thrown,
                                                        call.settled),
                                        call.slides)]
    /\ UNCHANGED graphVars

\* The caller goes on to its next stage call.
NextCall ==
    /\ call.pc = "done"
    /\ call' = IdleCall
    /\ UNCHANGED graphVars

ServiceNext ==
    \/ StartCall
    \/ RetryAttempt
    \/ RetryWait
    \/ StageReturn
    \/ CarouselDispatch
    \/ SlideSettles
    \/ CarouselJoin
    \/ NextCall

(***************************************************************************)
(* part_001 (the App component): the node/edge store                       *)
(***************************************************************************)
Absent == 0 - 1        \* an optional number that is not set

NoCopy ==
    [defined |-> FALSE, primaryText |-> Undefined, headline |-> Undefined,
     cta |-> Undefined]

\* An AdCopy object as a stage returned it
Copy(data) ==
    [defined |-> TRUE, primaryText |-> data.primaryText,
     headline |-> data.headline, cta |-> data.cta]

NoMetrics == [spend |-> Absent, roas10 |-> Absent]

\* A NodeData with only its required fields set (x, y and title, which no
\* handler reads back for anything but layout and prompts, are left out).
\* styleContext is meta.styleContext; roas is kept in tenths.
BlankNode(id, type, parentId) ==
    [id |-> id, type |-> type, parentId |-> parentId,
     description |-> Undefined, format |-> Undefined, imageUrl |-> Undefined,
     carouselImages |-> <<>>, adCopy |-> NoCopy, styleContext |-> Undefined,
     isLoading |-> FALSE, stage |-> "TESTING", isGhost |-> FALSE,
     metrics |-> NoMetrics, isWinning |-> FALSE, isLosing |-> FALSE,
     inputTokens |-> Absent, outputTokens |-> Absent,
     estimatedCost |-> Absent]

\* part_001:69-79
RootNode ==
    [BlankNode("root", "ROOT", Undefined) EXCEPT
        !.description = "Nootropic gummies for focus and memory without the caffeine crash."]

\* { ...n, ...updates }
Merge(n, updates) ==
    [f \in DOMAIN n |-> IF f \in DOMAIN updates THEN updates[f] ELSE n[f]]

\* lines 107-109
addNode(ns, node) == Append(ns, node)

addEdge(es, source, target) ==
    Append(es, [id |-> source \o "-" \o target, source |-> source,
                target |-> target])

updateNode(ns, id, updates) ==
    [k \in 1..Len(ns) |-> IF ns[k].id = id THEN Merge(ns[k], updates)
                          ELSE ns[k]]

\* nodes.find(n => n.id === id): the first match
Has(ns, id) == \E k \in 1..Len(ns) : ns[k].id = id
Find(ns, id) == ns[Min({ k \in 1..Len(ns) : ns[k].id = id })]

\* Gemini 2.5 Flash pricing, lines 338-341 and 533, in nano-dollars:
\* $0.30 and $2.50 per million tokens, $0.039 per image.
InputRate == 300
OutputRate == 2500
ImageRate == 39000000

totalCostNoImages(inputTokens, outputTokens, imageCount) ==
    inputTokens * InputRate + outputTokens * OutputRate

totalCost(inputTokens, outputTokens, imageCount) ==
    inputTokens * InputRate + outputTokens * OutputRate
    + imageCount * ImageRate

\* lines 288-293
isCarousel(fmt) ==
    fmt \in { CAROUSEL_EDUCATIONAL, CAROUSEL_TESTIMONIAL, CAROUSEL_PANORAMA,
              CAROUSEL_PHOTO_DUMP }

\* line 465
pivotOptions == << UGLY_VISUAL, TWITTER_REPOST, AESTHETIC_MINIMAL, POV_HANDS >>

pivotFormatFirst(currentFormat) == pivotOptions[1]

\* line 466: pivotOptions.find(f => f !== currentFormat) || AESTHETIC_MINIMAL
pivotFormat(currentFormat) ==
    LET hits == { k \in 1..Len(pivotOptions) : pivotOptions[k] # currentFormat }
    IN  IF hits # {} THEN pivotOptions[Min(hits)] ELSE AESTHETIC_MINIMAL

\* lines 468-472
variations(currentFormat) ==
    << [idSuffix |-> "v-copy", label |-> "Copy Remix", type |-> "COPY",
        format |-> currentFormat],
       [idSuffix |-> "v-visual", label |-> "Visual Refresh", type |-> "VISUAL",
        format |-> currentFormat],
       [idSuffix |-> "v-format", label |-> "Format Pivot", type |-> "FORMAT",
        format |-> pivotFormat(currentFormat)] >>

\* How a stage's model call can have settled when the handler resumes.
Settled(thrown, r) == [thrown |-> thrown, r |-> r]

Answered == Settled(FALSE, Response("complete", TRUE, TRUE))
Blank == Settled(FALSE, Response("missing", TRUE, FALSE))
Failed == Settled(TRUE, BadRequest)
NotAnArray == Settled(FALSE, Response("scalar", TRUE, FALSE))
Short == Settled(FALSE, Response("short", TRUE, FALSE))
Long == Settled(FALSE, Response("long", TRUE, FALSE))

\* The settlements the handlers are run against, per stage: a failed call
\* and an answer of the asked shape; an answer that is no array for the
\* expansions; an answer without text ("{}") for the copy.
ExpandSettlements == { Answered, Failed, NotAnArray }
AnyLengthSettlements == ExpandSettlements \cup { Short, Long }
StyleSettlements == { Answered }
CopySettlements == { Answered, Blank }
ImageSettlements == { Answered, Failed }
SlideTextSettlements == { Answered, Blank }

\* What generateCarouselSlides can return to the handler: the text call
\* settles one of the ways above and the slide image calls all come back
\* alike.
CarouselResults(fmt) ==
    { joinSlides(slideTextTokens(s.thrown, s.r),
                 [j \in 1..Len(slidePrompts(fmt, s.thrown, s.r)) |-> res])
        : s \in SlideTextSettlements,
          res \in { callImageGen(i.thrown, i.r) : i \in ImageSettlements } }

(***************************************************************************)
(* part_001: the handlers.  A handler runs to its next await in one step;  *)
(* ops holds the handlers that are suspended at an await, each with the    *)
(* values its closure captured.                                            *)
(***************************************************************************)
MaxExpand == 2       \* expansions (personas, angles) started in one run
MaxGenerate == 1     \* batch generations started in one run
MaxActions == 2      \* promote, remix, regenerate, simulate in one run
MaxRemix == 1        \* of which remixes
MaxClock == 1        \* the last value Date.now() reaches
MaxBatch == 1        \* formats selected in the format modal
MaxInFlight == 1     \* handlers suspended at the same time
MaxSiblings == 2     \* formats selected where the batch is run on its own
MaxRemixRuns == 2    \* remixes where the remix is run on its own
MaxRacing == 2       \* handlers suspended at once where handlers overlap

NoItem == [id |-> Undefined, format |-> Undefined, type |-> Undefined,
           styleContext |-> Undefined]

\* A handler suspended at an await.  src is the node its closure found at
\* entry (parentNode, sourceNode, node); items are the skeleton nodes.
\* failed is no variable of the code: it records the stages of the node in
\* hand whose model call threw, which the stage functions hide from the
\* handler.
Op(kind, src, pc) ==
    [kind |-> kind, target |-> src.id, src |-> src, pc |-> pc, i |-> 1,
     items |-> <<>>, inputTokens |-> 0, outputTokens |-> 0, imageCount |-> 0,
     visualStyle |-> "", adCopy |-> NoCopy, imageUrl |-> Undefined,
     failed |-> {}]

\* The stage's model call settled: it is recorded if it threw.
Record(op, stage, s) ==
    [op EXCEPT !.failed = IF s.thrown THEN @ \cup { stage } ELSE @]

RemoveAt(seq, k) == SubSeq(seq, 1, k - 1) \o SubSeq(seq, k + 1, Len(seq))

\* started counts the user actions taken so far, by kind
NoneStarted == [expand |-> 0, generate |-> 0, action |-> 0, remix |-> 0]

CanStart(kind, max) == started[kind] < max /\ Len(ops) < MaxInFlight

Count(kind) == [started EXCEPT ![kind] = @ + 1]

Stamp == ToString(now)     \* Date.now() inside a template literal

\* Date.now() moves on between two steps.
Tick ==
    /\ now < MaxClock
    /\ now' = now + 1
    /\ UNCHANGED <<nodes, edges, ops, simulating, started>>
    /\ UNCHANGED serviceVars

\* handleNodeAction('expand_personas' | 'expand_angles', nodeId) up to its
\* await: lines 362-368 and 394-398
StartExpand ==
    /\ CanStart("expand", MaxExpand)
    /\ \E k \in 1..Len(nodes) :
         /\ nodes[k].type \in { "ROOT", "PERSONA" }
         /\ LET parentNode == Find(nodes, nodes[k].id)
            IN  /\ nodes' = updateNode(nodes, parentNode.id,
                                       [isLoading |-> TRUE])
                /\ ops' = Append(ops, Op(IF parentNode.type = "ROOT"
                                         THEN "expand_personas"
                                         ELSE "expand_angles",
                                         parentNode, "expand"))
    /\ started' = Count("expand")
    /\ UNCHANGED <<edges, now, simulating>>
    /\ UNCHANGED serviceVars

\* The child nodes of an expansion: lines 377-389 and 406-418
ExpandChild(op, item, index, result) ==
    [BlankNode((IF op.kind = "expand_personas" THEN "persona-" ELSE "angle-")
               \o Stamp \o "-" \o ToString(index),
               IF op.kind = "expand_personas" THEN "PERSONA" ELSE "ANGLE",
               op.target)
     EXCEPT !.description = item,
            !.inputTokens = result.inputTokens \div 3,
            !.outputTokens = result.outputTokens \div 3,
            !.estimatedCost =
                totalCost(result.inputTokens, result.outputTokens, 0) \div 3]

RECURSIVE AddChildren(_, _, _)
AddChildren(ns, es, children) ==
    IF children = <<>> THEN [nodes |-> ns, edges |-> es]
    ELSE AddChildren(addNode(ns, Head(children)),
                     addEdge(es, Head(children).parentId, Head(children).id),
                     Tail(children))

\* What the synthesis stage of an expansion returns
Synthesis(op, s) ==
    IF op.kind = "expand_personas" THEN generatePersonas(s.thrown, s.r)
    ELSE generateAngles(s.thrown, s.r)

\* generatePersonas / generateAngles has returned, its model call settled
\* one of the ways in `settlements`: lines 369-392, 399-421
expandReturns(settlements) ==
    \E k \in 1..Len(ops), s \in settlements :
      /\ ops[k].kind \in { "expand_personas", "expand_angles" }
      /\ LET op == ops[k]
             result == Synthesis(op, s)
             \* forEach on something that is no array throws into the catch
             items == IF result.data.isArray THEN result.data.items ELSE <<>>
             grown == AddChildren(nodes, edges,
                                  [j \in 1..Len(items) |->
                                     ExpandChild(op, items[j], j - 1, result)])
         IN  /\ nodes' = updateNode(grown.nodes, op.target,
                                    [isLoading |-> FALSE])
             /\ edges' = grown.edges
             /\ ops' = RemoveAt(ops, k)
      /\ UNCHANGED <<now, simulating, started>>
      /\ UNCHANGED serviceVars

ResumeExpand == expandReturns(ExpandSettlements)

\* The same where the model may also answer with fewer or more items than
\* it was asked for
ResumeExpandAnyLength == expandReturns(AnyLengthSettlements)

(***************************************************************************)
(* executeGeneration, part_001:230-360                                     *)
(***************************************************************************)
\* The formats offered in the modal that the model selects from
\* (FORMAT_GROUPS, lines 17-63): a carousel and a single-image format.
ModalFormats == { CAROUSEL_EDUCATIONAL, UGLY_VISUAL }

\* Array.from(selectedFormats): the selection in insertion order
SelectionsUpTo(max) ==
    { sel \in UNION { [1..n -> ModalFormats] : n \in 1..max } :
        \A a, b \in 1..Len(sel) : a # b => sel[a] # sel[b] }

Selections == SelectionsUpTo(MaxBatch)

\* The one-format arrays of the parameter's type, CreativeFormat[] (line 230)
OneOfEach == { << f >> : f \in CreativeFormat }

\* A skeleton that is not marked loading
SkeletonReady(parentId, format, index) ==
    [BlankNode("creative-" \o Stamp \o "-" \o ToString(index), "CREATIVE",
               parentId)
     EXCEPT !.description = "Initializing Generation...", !.format = format,
            !.styleContext = ""]

\* lines 252-272
Skeleton(parentId, format, index) ==
    [BlankNode("creative-" \o Stamp \o "-" \o ToString(index), "CREATIVE",
               parentId)
     EXCEPT !.description = "Initializing Generation...", !.format = format,
            !.isLoading = TRUE, !.styleContext = ""]

Item(node, type) ==
    [id |-> node.id, format |-> node.format, type |-> type,
     styleContext |-> node.styleContext]

Describe(ns, id, text) == updateNode(ns, id, [description |-> text])

\* A loop body that goes to the copy without the style of a carousel
BatchEnterCopyFirst(ns, op) ==
    [nodes |-> Describe(ns, op.items[op.i].id, "Copywriter: Drafting..."),
     op |-> [op EXCEPT !.inputTokens = 0, !.outputTokens = 0,
                       !.imageCount = 0, !.visualStyle = "",
                       !.adCopy = NoCopy, !.imageUrl = Undefined,
                       !.failed = {}, !.pc = "copy"]]

\* A loop body that starts on the sibling after items[i] in the same breath
BatchEnterAhead(ns, op) ==
    LET node == op.items[op.i]
        ahead == IF op.i < Len(op.items)
                 THEN Describe(ns, op.items[op.i + 1].id,
                               "Copywriter: Drafting...")
                 ELSE ns
        fresh == [op EXCEPT !.inputTokens = 0, !.outputTokens = 0,
                            !.imageCount = 0, !.visualStyle = "",
                            !.adCopy = NoCopy, !.imageUrl = Undefined,
                            !.failed = {}]
    IN  IF isCarousel(node.format)
        THEN [nodes |-> Describe(ahead, node.id,
                                 "Director: Setting Scene..."),
              op |-> [fresh EXCEPT !.pc = "style"]]
        ELSE [nodes |-> Describe(ahead, node.id, "Copywriter: Drafting..."),
              op |-> [fresh EXCEPT !.pc = "copy"]]

\* The body of the loop for items[i] up to its first await: lines 279-314
BatchEnter(ns, op) ==
    LET node == op.items[op.i]
        fresh == [op EXCEPT !.inputTokens = 0, !.outputTokens = 0,
                            !.imageCount = 0, !.visualStyle = "",
                            !.adCopy = NoCopy, !.imageUrl = Undefined,
                            !.failed = {}]
    IN  IF isCarousel(node.format)
        THEN [nodes |-> Describe(ns, node.id, "Director: Setting Scene..."),
              op |-> [fresh EXCEPT !.pc = "style"]]
        ELSE [nodes |-> Describe(Describe(ns, node.id,
                                          "Format: Enforcing Medium..."),
                                 node.id, "Copywriter: Drafting..."),
              op |-> [fresh EXCEPT !.pc = "copy"]]

\* adCopy.primaryText.slice(0, 100) + "..."
Preview(adCopy) == adCopy.primaryText \o "..."

\* BatchSettle with a catch block that leaves the loading flag as it is
BatchSettleStuck(ns, op, carouselImages) ==
    LET node == op.items[op.i]
    IN  IF op.adCopy.primaryText = Undefined
        THEN updateNode(ns, node.id, [description |-> "Generation Failed"])
        ELSE updateNode(ns, node.id,
               [isLoading |-> FALSE, description |-> Preview(op.adCopy),
                imageUrl |-> op.imageUrl, carouselImages |-> carouselImages,
                adCopy |-> op.adCopy, inputTokens |-> op.inputTokens,
                outputTokens |-> op.outputTokens,
                estimatedCost |-> totalCost(op.inputTokens, op.outputTokens,
                                            op.imageCount),
                styleContext |-> op.visualStyle])

\* lines 337-356: the cost, the final updateNode or the catch block
BatchSettle(ns, op, carouselImages) ==
    LET node == op.items[op.i]
    IN  IF op.adCopy.primaryText = Undefined
        THEN updateNode(ns, node.id,
                        [isLoading |-> FALSE,
                         description |-> "Generation Failed"])
        ELSE updateNode(ns, node.id,
               [isLoading |-> FALSE, description |-> Preview(op.adCopy),
                imageUrl |-> op.imageUrl, carouselImages |-> carouselImages,
                adCopy |-> op.adCopy, inputTokens |-> op.inputTokens,
                outputTokens |-> op.outputTokens,
                estimatedCost |-> totalCost(op.inputTokens, op.outputTokens,
                                            op.imageCount),
                styleContext |-> op.visualStyle])

\* executeGeneration(parentNodeId, formats) up to its first await, for a
\* selection out of `selections`: lines 230-314
executeGeneration(selections) ==
    /\ CanStart("generate", MaxGenerate)
    /\ \E k \in 1..Len(nodes), formats \in selections :
         /\ nodes[k].type = "ANGLE"
         /\ LET parentNode == Find(nodes, nodes[k].id)
                newNodes == [j \in 1..Len(formats) |->
                               Skeleton(parentNode.id, formats[j], j - 1)]
                grown == AddChildren(updateNode(nodes, parentNode.id,
                                                [isLoading |-> TRUE]),
                                     edges, newNodes)
                op == [Op("batch", parentNode, "enter") EXCEPT
                         !.items = [j \in 1..Len(newNodes) |->
                                      Item(newNodes[j], "BATCH")]]
                entered == BatchEnter(grown.nodes, op)
            IN  /\ nodes' = entered.nodes
                /\ edges' = grown.edges
                /\ ops' = Append(ops, entered.op)
    /\ started' = Count("generate")
    /\ UNCHANGED <<now, simulating>>
    /\ UNCHANGED serviceVars

StartBatch == executeGeneration(Selections)

\* The same with up to MaxSiblings formats selected
StartSiblings == executeGeneration(SelectionsUpTo(MaxSiblings))

\* The same called with one format, whichever it is
StartAnyFormat == executeGeneration(OneOfEach)

\* A token count added to the accumulators
Spend(op, result) ==
    [op EXCEPT !.inputTokens = @ + result.inputTokens,
               !.outputTokens = @ + result.outputTokens]

\* The image of a callImageGen result: `imageUrl || undefined`
Image(result) == IF result.data = Null THEN Undefined ELSE result.data

\* The handler resumes from one of its awaits and runs to the next.
ResumeBatch ==
    \E k \in 1..Len(ops) :
      /\ ops[k].kind = "batch"
      /\ LET op == ops[k]
             node == op.items[op.i]
             \* the loop goes on to the next node or leaves (line 359)
             After(ns, o) ==
                 IF o.i < Len(o.items)
                 THEN /\ nodes' = ns
                      /\ ops' = [ops EXCEPT ![k] = [o EXCEPT !.i = @ + 1,
                                                             !.pc = "delay"]]
                 ELSE /\ nodes' = updateNode(ns, o.target,
                                             [isLoading |-> FALSE])
                      /\ ops' = RemoveAt(ops, k)
         IN  CASE op.pc = "delay" ->
                    LET entered == BatchEnter(nodes, op)
                    IN  /\ nodes' = entered.nodes
                        /\ ops' = [ops EXCEPT ![k] = entered.op]
               [] op.pc = "style" ->
                    \E s \in StyleSettlements :
                      LET styleResult == generateVisualStyle(s.thrown, s.r)
                      IN  /\ nodes' = Describe(nodes, node.id,
                                               "Copywriter: Drafting...")
                          /\ ops' = [ops EXCEPT ![k] =
                                [Spend(Record(op, "style", s), styleResult)
                                 EXCEPT !.visualStyle = styleResult.data,
                                        !.pc = "copy"]]
               [] op.pc = "copy" ->
                    \E s \in CopySettlements :
                      LET copyResult ==
                            generateAdCopy([copyAngle |-> Undefined],
                                           s.thrown, s.r)
                      IN  /\ nodes' = Describe(nodes, node.id,
                                               "Visualizer: Rendering...")
                          /\ ops' = [ops EXCEPT ![k] =
                                [Spend(Record(op, "copy", s), copyResult)
                                 EXCEPT !.adCopy = Copy(copyResult.data),
                                        !.pc = "image"]]
               [] op.pc = "image" ->
                    \E s \in ImageSettlements :
                      LET imgResult == callImageGen(s.thrown, s.r)
                          o == [Spend(Record(op, "image", s), imgResult)
                                EXCEPT
                                  !.imageUrl = Image(imgResult),
                                  !.imageCount =
                                      IF imgResult.data # Null THEN 1 ELSE 0]
                      IN  IF isCarousel(node.format)
                          THEN /\ nodes' = nodes
                               /\ ops' = [ops EXCEPT ![k] =
                                            [o EXCEPT !.pc = "carousel"]]
                          ELSE After(BatchSettle(nodes, o, <<>>), o)
               [] OTHER ->
                    \E slidesResult \in CarouselResults(node.format) :
                      LET o == [Spend(op, slidesResult) EXCEPT
                                  !.imageCount = @ + Len(slidesResult.data)]
                      IN  After(BatchSettle(nodes, o, slidesResult.data), o)
      /\ UNCHANGED <<edges, now, simulating, started>>
      /\ UNCHANGED serviceVars

(***************************************************************************)
(* handleNodeAction('remix_creative'), part_001:447-553                    *)
(***************************************************************************)
\* sourceNode.meta?.styleContext || ""
currentStyle(sourceNode) ==
    IF sourceNode.styleContext = Undefined THEN ""
    ELSE sourceNode.styleContext

\* lines 478-490
RemixSkeleton(sourceNode, v) ==
    [BlankNode("remix-" \o sourceNode.id \o "-" \o v.idSuffix, "CREATIVE",
               sourceNode.id)
     EXCEPT !.description = "Remixing: " \o v.label \o "...",
            !.format = v.format, !.isLoading = TRUE,
            !.styleContext = currentStyle(sourceNode)]

\* A copy step that writes new copy for every variation
RemixCopyStepAlways(op) == [op EXCEPT !.pc = "copy"]

\* Steps 1 and 2 of the loop body up to the first await: lines 499-518
RemixCopyStep(op) ==
    IF op.items[op.i].type = "COPY" \/ ~op.src.adCopy.defined
    THEN [op EXCEPT !.pc = "copy"]
    ELSE [op EXCEPT !.adCopy = op.src.adCopy, !.pc = "image"]

RemixEnter(op) ==
    LET fresh == [op EXCEPT !.inputTokens = 0, !.outputTokens = 0,
                            !.imageCount = 0,
                            !.visualStyle = currentStyle(op.src),
                            !.adCopy = NoCopy, !.imageUrl = Undefined]
    IN  IF op.items[op.i].type = "VISUAL"
        THEN [fresh EXCEPT !.pc = "style"]
        ELSE RemixCopyStep(fresh)

\* lines 531-547: the cost, the final updateNode or the catch block
RemixSettle(ns, op) ==
    LET node == op.items[op.i]
    IN  IF op.adCopy.primaryText = Undefined
        THEN updateNode(ns, node.id,
                        [isLoading |-> FALSE, description |-> "Remix Failed"])
        ELSE updateNode(ns, node.id,
               [isLoading |-> FALSE, imageUrl |-> op.imageUrl,
                adCopy |-> op.adCopy, description |-> Preview(op.adCopy),
                inputTokens |-> op.inputTokens,
                outputTokens |-> op.outputTokens,
                estimatedCost |-> totalCost(op.inputTokens, op.outputTokens,
                                            op.imageCount),
                styleContext |-> op.visualStyle])

\* handleNodeAction('remix_creative', nodeId) up to its first await, as
\* long as fewer than `max` remixes were started: lines 447-518
remixCreative(max) ==
    /\ CanStart("action", MaxActions)
    /\ started.remix < max
    /\ \E k \in 1..Len(nodes) :
         /\ nodes[k].type = "CREATIVE"
         /\ LET sourceNode == Find(nodes, nodes[k].id)
                vs == variations(sourceNode.format)
                remixNodes == [j \in 1..Len(vs) |->
                                 RemixSkeleton(sourceNode, vs[j])]
                grown == AddChildren(updateNode(nodes, sourceNode.id,
                                                [isLoading |-> TRUE]),
                                     edges, remixNodes)
                op == [Op("remix", sourceNode, "enter") EXCEPT
                         !.items = [j \in 1..Len(vs) |->
                                      Item(remixNodes[j], vs[j].type)]]
            IN  /\ nodes' = grown.nodes
                /\ edges' = grown.edges
                /\ ops' = Append(ops, RemixEnter(op))
    /\ started' = [started EXCEPT !.action = @ + 1, !.remix = @ + 1]
    /\ UNCHANGED <<now, simulating>>
    /\ UNCHANGED serviceVars

StartRemix == remixCreative(MaxRemix)

\* The same with up to MaxRemixRuns remixes in one run
StartRemixRuns == remixCreative(MaxRemixRuns)

ResumeRemix ==
    \E k \in 1..Len(ops), s \in CopySettlements \cup ImageSettlements :
      /\ ops[k].kind = "remix"
      /\ ops[k].pc = "style" => s \in StyleSettlements
      /\ ops[k].pc = "copy" => s \in CopySettlements
      /\ ops[k].pc = "image" => s \in ImageSettlements
      /\ LET op == ops[k]
         IN  CASE op.pc = "style" ->
                    LET styleResult == generateVisualStyle(s.thrown, s.r)
                    IN  /\ nodes' = nodes
                        /\ ops' = [ops EXCEPT ![k] =
                              RemixCopyStep([Spend(op, styleResult) EXCEPT
                                               !.visualStyle =
                                                   styleResult.data])]
               [] op.pc = "copy" ->
                    LET copyResult ==
                          generateAdCopy([copyAngle |-> Undefined],
                                         s.thrown, s.r)
                    IN  /\ nodes' = nodes
                        /\ ops' = [ops EXCEPT ![k] =
                              [Spend(op, copyResult) EXCEPT
                                 !.adCopy = Copy(copyResult.data),
                                 !.pc = "image"]]
               [] OTHER ->
                    LET imgResult == callImageGen(s.thrown, s.r)
                        o == [Spend(op, imgResult) EXCEPT
                                !.imageUrl = Image(imgResult),
                                !.imageCount =
                                    IF imgResult.data # Null THEN 1 ELSE 0]
                        settled == RemixSettle(nodes, o)
                    IN  IF o.i < Len(o.items)
                        THEN /\ nodes' = settled
                             /\ ops' = [ops EXCEPT ![k] =
                                          RemixEnter([o EXCEPT !.i = @ + 1])]
                        ELSE /\ nodes' = updateNode(settled, o.target,
                                                    [isLoading |-> FALSE])
                             /\ ops' = RemoveAt(ops, k)
      /\ UNCHANGED <<edges, now, simulating, started>>
      /\ UNCHANGED serviceVars

(***************************************************************************)
(* handleRegenerateNode, part_001:201-228                                  *)
(***************************************************************************)
\* A regeneration that drops the node's ad copy when it starts
handleRegenerateNodeClearing(inflight) ==
    /\ started.action < MaxActions
    /\ Len(ops) < inflight
    /\ \E k \in 1..Len(nodes) :
         /\ nodes[k].type = "CREATIVE"
         /\ LET node == Find(nodes, nodes[k].id)
            IN  /\ nodes' = updateNode(nodes, node.id,
                              [isLoading |-> TRUE, adCopy |-> NoCopy,
                               description |-> "Regenerating visual..."])
                /\ ops' = Append(ops, Op("regenerate", node, "image"))
    /\ started' = Count("action")
    /\ UNCHANGED <<edges, now, simulating>>
    /\ UNCHANGED serviceVars

\* handleRegenerateNode(nodeId) up to its await, as long as fewer than
\* `inflight` handlers are suspended: lines 201-209
handleRegenerateNode(inflight) ==
    /\ started.action < MaxActions
    /\ Len(ops) < inflight
    /\ \E k \in 1..Len(nodes) :
         /\ nodes[k].type = "CREATIVE"
         /\ LET node == Find(nodes, nodes[k].id)
            IN  /\ nodes' = updateNode(nodes, node.id,
                              [isLoading |-> TRUE,
                               description |-> "Regenerating visual..."])
                /\ ops' = Append(ops, Op("regenerate", node, "image"))
    /\ started' = Count("action")
    /\ UNCHANGED <<edges, now, simulating>>
    /\ UNCHANGED serviceVars

StartRegenerate == handleRegenerateNode(MaxInFlight)

\* The same clicked while another handler is still suspended
StartRegenerateBeside == handleRegenerateNode(MaxRacing)

\* node.adCopy?.primaryText.slice(0, 100) + "..." || node.description
\* (undefined + "..." is the string "undefined...", which is truthy)
RegeneratedDescription(node) ==
    IF node.adCopy.defined THEN Preview(node.adCopy) ELSE Undefined \o "..."

ResumeRegenerate ==
    \E k \in 1..Len(ops), s \in ImageSettlements :
      /\ ops[k].kind = "regenerate"
      /\ LET op == ops[k]
             imgResult == callImageGen(s.thrown, s.r)
         IN  nodes' =
               IF imgResult.data = Null
               THEN updateNode(nodes, op.target,
                      [isLoading |-> FALSE,
                       description |-> "Regeneration failed."])
               ELSE IF op.src.adCopy.defined
                       /\ op.src.adCopy.primaryText = Undefined
               THEN updateNode(nodes, op.target,
                      [isLoading |-> FALSE,
                       description |-> "Error during regeneration"])
               ELSE updateNode(nodes, op.target,
                      [imageUrl |-> imgResult.data, isLoading |-> FALSE,
                       description |-> RegeneratedDescription(op.src)])
      /\ ops' = RemoveAt(ops, k)
      /\ UNCHANGED <<edges, now, simulating, started>>
      /\ UNCHANGED serviceVars

(***************************************************************************)
(* handleNodeAction('promote_creative'), part_001:429-445                  *)
(***************************************************************************)
VaultMetrics == [spend |-> 850, roas10 |-> 32]

\* The copy is spread from the node as it was found, before the update.
VaultNode(originalNode) ==
    [originalNode EXCEPT
        !.id = "vault-" \o originalNode.id, !.stage = "SCALING",
        !.description = "Active in Advantage+ Scaling Campaign",
        !.isWinning = TRUE, !.metrics = VaultMetrics]

Promote ==
    /\ started.action < MaxActions
    /\ \E k \in 1..Len(nodes) :
         /\ nodes[k].type = "CREATIVE"
         /\ LET originalNode == Find(nodes, nodes[k].id)
            IN  nodes' = addNode(updateNode(nodes, originalNode.id,
                                            [isGhost |-> TRUE,
                                             stage |-> "TESTING"]),
                                 VaultNode(originalNode))
    /\ started' = Count("action")
    /\ UNCHANGED <<edges, ops, now, simulating>>
    /\ UNCHANGED serviceVars

(***************************************************************************)
(* handleSimulatePerformance, part_001:556-576                             *)
(***************************************************************************)
\* The draws of spend and roas (in tenths) that the branches of lines
\* 561-567 tell apart: spend > 500 with good and with bad quality, and a
\* small spend.
Draws ==
    { [spend |-> 900, roas10 |-> 30], [spend |-> 900, roas10 |-> 10],
      [spend |-> 100, roas10 |-> 18] }

\* A test that lets ghosts through
EligibleGhosts(n) ==
    n.type = "CREATIVE" /\ ~n.isLoading /\ n.stage = "TESTING"

\* line 560
Eligible(n) ==
    n.type = "CREATIVE" /\ ~n.isLoading /\ n.stage = "TESTING" /\ ~n.isGhost

\* lines 568-570
Measured(n, m) ==
    [n EXCEPT !.metrics = m,
              !.isWinning = m.spend > 400 /\ m.roas10 > 22,
              !.isLosing = m.spend > 300 /\ m.roas10 < 15]

\* The button is disabled while a simulation runs (line 623).
StartSimulate ==
    /\ started.action < MaxActions
    /\ ~simulating
    /\ simulating' = TRUE
    /\ started' = Count("action")
    /\ UNCHANGED <<nodes, edges, ops, now>>
    /\ UNCHANGED serviceVars

\* The timer of line 575 fires.
SimulateFires ==
    /\ simulating
    /\ \E draw \in [{ k \in 1..Len(nodes) : Eligible(nodes[k]) } -> Draws] :
         nodes' = [k \in 1..Len(nodes) |->
                     IF Eligible(nodes[k]) THEN Measured(nodes[k], draw[k])
                     ELSE nodes[k]]
    /\ simulating' = FALSE
    /\ UNCHANGED <<edges, ops, now, started>>
    /\ UNCHANGED serviceVars

(***************************************************************************)
(* The specifications                                                      *)
(***************************************************************************)
\* part_001:69-90: the canvas holds the root node only
Init ==
    /\ nodes = <<RootNode>>
    /\ edges = <<>>
    /\ ops = <<>>
    /\ now = 0
    /\ simulating = FALSE
    /\ started = NoneStarted
    /\ call = IdleCall

Next ==
    \/ Tick
    \/ StartExpand
    \/ ResumeExpand
    \/ StartBatch
    \/ ResumeBatch
    \/ StartRemix
    \/ ResumeRemix
    \/ StartRegenerate
    \/ ResumeRegenerate
    \/ Promote
    \/ StartSimulate
    \/ SimulateFires

Spec == Init /\ [][Next]_vars

ServiceSpec == Init /\ [][ServiceNext]_vars

\* The expansions and executeGeneration on their own, with several formats
\* selected: the batch loop from its skeletons to its last node.
BatchNext ==
    \/ StartExpand
    \/ ResumeExpand
    \/ StartSiblings
    \/ ResumeBatch

BatchSpec == Init /\ [][BatchNext]_vars

\* The expansions, executeGeneration and the remix on their own, with the
\* remix run more than once.
RemixNext ==
    \/ StartExpand
    \/ ResumeExpand
    \/ StartBatch
    \/ ResumeBatch
    \/ StartRemixRuns
    \/ ResumeRemix

RemixSpec == Init /\ [][RemixNext]_vars

\* The expansions, answered with any number of items, and executeGeneration
\* called with any one format
FormatNext ==
    \/ StartExpand
    \/ ResumeExpandAnyLength
    \/ StartAnyFormat
    \/ ResumeBatch

FormatSpec == Init /\ [][FormatNext]_vars

\* The expansions, executeGeneration and the regeneration, where the
\* regeneration may be started while another handler is suspended.
RaceNext ==
    \/ StartExpand
    \/ ResumeExpand
    \/ StartBatch
    \/ ResumeBatch
    \/ StartRegenerateBeside
    \/ ResumeRegenerate

RaceSpec == Init /\ [][RaceNext]_vars

(***************************************************************************)
(* Properties of the service (ServiceSpec)                                 *)
(***************************************************************************)
Classified(o, status) ==
    o.type = "error" /\ (o.status = status \/ o.code = status)

EveryAttempt(status) ==
    \A j \in 1..Len(call.log) : Classified(call.log[j], status)

Returned == call.pc \in { "settled", "slides", "done" }

\* C4: runWithRetry with a maximum attempt count of 3, on an operation that
\* fails with a 429-classified error every time, invokes the operation
\* exactly 3 times and then propagates the error; on an operation that
\* fails with a 400-classified error it invokes it exactly once and
\* propagates the error.
C4_RetryAttempts ==
    (Returned /\ call.retries = 3) =>
        /\ EveryAttempt(429) =>
             /\ call.attempts = 3
             /\ call.thrown
             /\ call.settled = call.log[3]
        /\ Classified(call.log[1], 400) =>
             /\ call.attempts = 1
             /\ call.thrown
             /\ call.settled = call.log[1]

C4_Witness ==
    /\ call.pc = "settled"
    /\ call.retries = 3
    /\ call.attempts = 3
    /\ EveryAttempt(429)
    /\ call.thrown

\* C28: runWithRetry waits only between a transient failure and the next
\* attempt; the wait before the retry that follows 0-indexed attempt i lies
\* in [base * 2^i, base * 2^i + 500]; with a maximum attempt count of n there
\* are at most n - 1 waits, and their lower bounds double from one wait to
\* the next.
C28_Backoff ==
    /\ [](call.pc # "idle" =>
            /\ Len(call.waits) <= call.retries - 1
            /\ Len(call.waits) = IF call.pc \in { "attempt", "waiting" }
                                 THEN call.attempts
                                 ELSE call.attempts - 1
            /\ \A j \in 1..Len(call.waits) :
                 /\ isTransient(call.log[j])
                 /\ call.waits[j] >= call.initialDelay * 2^(j - 1)
                 /\ call.waits[j] <= call.initialDelay * 2^(j - 1) + 500
                 /\ j > 1 => call.waits[j] >= 2 * (call.waits[j - 1] - 500))
    /\ [][call.pc = "waiting" => call'.pc = "attempt"]_vars

\* Two waits were made in a call that allows 3 attempts, both with the
\* largest jitter.
C28_Witness ==
    /\ call.retries = 3
    /\ call.initialDelay = 1000
    /\ call.waits = << 1499, 2499 >>
    /\ call.attempts = 3

\* C38: with a maximum attempt count of n, runWithRetry invokes the
\* operation at least once and at most n times; if attempt k is the first
\* to succeed, after k - 1 transient failures, runWithRetry returns that
\* attempt's result and has invoked the operation exactly k times: after a
\* success the operation is not invoked again.
C38_AttemptsBounded ==
    /\ [](/\ call.attempts <= call.retries
          /\ call.attempts = Len(call.log)
          /\ Returned => call.attempts >= 1
          /\ \A k \in 1..Len(call.log) :
               call.log[k].type = "ok" =>
                 /\ k = call.attempts
                 /\ Returned
                 /\ ~call.thrown
                 /\ call.settled = call.log[k]
                 /\ \A j \in 1..(k - 1) : isTransient(call.log[j]))
    /\ [][(Returned /\ call'.pc # "idle") =>
            (call'.attempts = call.attempts /\ call'.log = call.log)]_vars

\* The third of 3 attempts succeeded after two transient failures.
C38_Witness ==
    /\ call.retries = 3
    /\ call.attempts = 3
    /\ call.log[1].type = "error"
    /\ call.log[2].type = "error"
    /\ call.log[3].type = "ok"
    /\ call.pc = "done"
    /\ ~call.thrown

\* C5: no stage function ever throws to its caller: whenever a stage has
\* returned, it has returned a payload, whatever the model call did.
C5_NoStageThrows ==
    call.pc = "done" => ~call.result.threw

\* C7: getVisualEnhancers(style, format) returns a descriptor for every
\* CreativeFormat and every style hint, and each format falls in exactly one
\* bucket: at most one of the five format lists holds it, and the descriptor
\* returned is that list's, or the style with the default suffix when none
\* holds it.
Styles ==
    { "", "flat", "candid" } \cup { activeStyle(f) : f \in CreativeFormat }

C7_OneBucket ==
    call.stage = "generateCreativeImage" =>
        /\ call.enhancers # ""
        /\ Cardinality(Matching(call.format)) <= 1
        /\ \A style \in Styles :
             LET descriptor == getVisualEnhancers(style, call.format)
             IN  /\ descriptor # ""
                 /\ \A k \in Matching(call.format) :
                      descriptor = Chassis[k].descriptor
                 /\ Matching(call.format) = {} =>
                      descriptor = style \o DefaultSuffix

C7_Witness ==
    /\ call.stage = "generateCreativeImage"
    /\ call.format = MEME
    /\ call.enhancers = MemeDescriptor

\* C31: for every format that one of the chassis buckets holds, the
\* descriptor getVisualEnhancers(style, format) returns is the same for all
\* style hints: it does not depend on the style text.
C31_ChassisIgnoresStyle ==
    (call.stage = "generateCreativeImage" /\ Matching(call.format) # {}) =>
        \A s1, s2 \in Styles :
          /\ getVisualEnhancers(s1, call.format)
               = getVisualEnhancers(s2, call.format)
          /\ call.enhancers = getVisualEnhancers(s1, call.format)

\* The image stage was called for a lo-fi format, whose style hint is not
\* empty, and got the lo-fi descriptor.
C31_Witness ==
    /\ call.stage = "generateCreativeImage"
    /\ call.format = UGLY_VISUAL
    /\ activeStyle(call.format) # ""
    /\ call.enhancers = LoFiDescriptor

\* The four fixed buckets: UI screenshot, lo-fi/UGC, meme/doodle, flat vector
FixedBuckets == AppUiFormats \cup LoFiFormats \cup MemeFormats \cup VectorFormats

\* C21: for every format that belongs to none of the four fixed buckets,
\* getVisualEnhancers(style, format) is the style hint followed by the fixed
\* high-end quality suffix, so the result changes whenever the style hint
\* changes.
C21_StyleThenSuffix ==
    (call.stage = "generateCreativeImage" /\ call.format \notin FixedBuckets) =>
        /\ call.enhancers = activeStyle(call.format) \o DefaultSuffix
        /\ \A s1, s2 \in Styles :
             /\ getVisualEnhancers(s1, call.format) = s1 \o DefaultSuffix
             /\ s1 # s2 => getVisualEnhancers(s1, call.format)
                             # getVisualEnhancers(s2, call.format)

\* C9: carousel expansion for the educational format builds exactly 4 slide
\* prompts and dispatches exactly 4 slide image requests, when the text call
\* fails and when it succeeds with any parseable response.
C9_FourSlides ==
    (call.stage = "generateCarouselSlides"
     /\ call.format = CAROUSEL_EDUCATIONAL
     /\ call.pc \in { "slides", "done" }) =>
        Len(call.prompts) = 4 /\ Len(call.slides) = 4

\* C10: the five market-awareness levels select five pairwise distinct,
\* non-empty strategy strings, and an absent or unrecognized level selects
\* the generic strategy, which differs from all five.
C10_Strategies ==
    call.stage = "generateAngles" =>
        /\ call.strategy # ""
        /\ call.marketAwareness \in MarketAwareness =>
             /\ call.strategy # GenericStrategy
             /\ \A other \in MarketAwareness \ { call.marketAwareness } :
                  awarenessStrategy(other) # call.strategy
        /\ call.marketAwareness \notin MarketAwareness =>
             call.strategy = GenericStrategy

C10_Witness ==
    /\ call.stage = "generateAngles"
    /\ call.marketAwareness = MOST_AWARE
    /\ call.strategy # GenericStrategy
    /\ call.pc = "done"

\* headline.includes(project.productName), decided for the headlines the
\* stage can return: the name alone or behind a prefix the code puts there.
NamesProduct(headline) ==
    headline \in { prefix \o ProductName : prefix \in { "", "Discover " } }

\* C11: for the UNAWARE awareness level, no headline returned by angle
\* synthesis contains the literal product name, on every path through the
\* stage, the fallback taken when the model call fails included.
C11_NoProductName ==
    (call.stage = "generateAngles"
     /\ call.marketAwareness = UNAWARE
     /\ call.pc = "done") =>
        \A j \in 1..Len(call.result.data.items) :
            ~NamesProduct(call.result.data.items[j])

\* C18: the compliance check never throws, and it returns the safe marker
\* only when the model's verdict is exactly the compliant verdict: a warning
\* (one containing the word COMPLIANT too), an empty response and a failed
\* call all give a result that is not the safe marker.
C18_SafeOnlyWhenCompliant ==
    (call.stage = "checkAdCompliance" /\ call.pc = "done") =>
        /\ ~call.result.threw
        /\ call.result.data = "Safe" =>
             /\ ~call.thrown
             /\ call.settled.text = "COMPLIANT"

\* An error runWithRetry is meant to retry: 429 or 503 by status, code or
\* message.
RetryWorthy(o) ==
    /\ o.type = "error"
    /\ \/ o.status \in { 429, 503 }
       \/ o.code = 429
       \/ o.message \cap { "429", "503", "RESOURCE_EXHAUSTED" } # {}

\* C20: runWithRetry propagates a terminal failure, and a transient failure
\* on the final attempt, without waiting: a delay follows every failed
\* attempt but the last, the last is the only attempt that may have failed
\* terminally, and the error propagated is the one that attempt threw.
C20_PropagatesAtOnce ==
    (Returned /\ call.thrown) =>
        /\ Len(call.log) = call.attempts
        /\ Len(call.waits) = call.attempts - 1
        /\ call.settled = call.log[call.attempts]
        /\ \A j \in 1..(call.attempts - 1) : RetryWorthy(call.log[j])
        /\ \/ ~RetryWorthy(call.settled)
           \/ call.attempts = call.retries

C20_Witness ==
    /\ call.pc = "settled"
    /\ call.thrown
    /\ call.attempts = 3
    /\ call.settled = Overloaded
    /\ Len(call.waits) = 2

\* C22: for the persona, angle, concept and copy stages, when the model
\* call succeeds but the response carries no text, the stage returns a
\* non-empty payload: never an empty list and never an object lacking one
\* of its required fields.
C22_MissingTextFallsBack ==
    (/\ call.pc = "done"
     /\ ~call.thrown
     /\ call.settled.text = "missing") =>
        /\ call.stage \in { "generatePersonas", "generateAngles" } =>
             /\ call.result.data.isArray
             /\ call.result.data.items # <<>>
        /\ call.stage \in { "generateCreativeConcept", "generateAdCopy" } =>
             \A f \in DOMAIN call.result.data :
               call.result.data[f] # Undefined

\* The slides whose image call came back with an image, and the k-th of
\* them in the order of the slide prompts
Drawn == { j \in 1..Len(call.slides) : call.slides[j].data # Null }

NthDrawn(k) == CHOOSE j \in Drawn : Cardinality({ e \in Drawn : e < j }) = k - 1

\* C24: generateCarouselSlides dispatches the image requests of all slide
\* prompts before it awaits any of them, and returns only after every one
\* of them has completed; the images it returns are in the order of the
\* slide prompts, whatever the order in which the requests completed.
C24_JoinInOrder ==
    /\ [][(call.stage = "generateCarouselSlides" /\ call.pc = "settled"
           /\ call'.pc # "settled") =>
              /\ call'.pc = "slides"
              /\ Len(call'.slides) = Len(call'.prompts)
              /\ \A j \in 1..Len(call'.slides) : call'.slides[j] = Pending]_vars
    /\ []((call.stage = "generateCarouselSlides" /\ call.pc = "done") =>
              /\ \A j \in 1..Len(call.slides) : call.slides[j] # Pending
              /\ Len(call.result.data) = Cardinality(Drawn)
              /\ \A k \in 1..Len(call.result.data) :
                   call.result.data[k] = SlideImage(NthDrawn(k)))

\* The join has returned three images although a later slide's request
\* completed before an earlier one's and one request brought no image.
C24_Witness ==
    /\ call.stage = "generateCarouselSlides"
    /\ call.pc = "done"
    /\ call.overtaken
    /\ Len(call.slides) = 4
    /\ Len(call.result.data) = 3

(***************************************************************************)
(* Properties of the batch loop (BatchSpec)                                *)
(***************************************************************************)
\* The batch handlers in flight
Batches == { o \in 1..Len(ops) : ops[o].kind = "batch" }

\* The stage a handler awaits and the stage it awaits next, for one node
StageOrder ==
    { << "style", "copy" >>, << "copy", "image" >>,
      << "image", "carousel" >> }

\* A step in which the handler ops[o] runs from one await to the next
Advances(o) == Len(ops') = Len(ops) /\ ops'[o] # ops[o]

\* A step in which the handler ops[o] runs from an await to its end
Leaves(o) == ops' = RemoveAt(ops, o)

\* The ids of the skeletons of ops[o] are the ids of no other node: two
\* batches share ids when both are started at the same Date.now().
OwnIds(o) ==
    \A j \in 1..Len(ops[o].items) :
      Cardinality({ k \in 1..Len(nodes) :
                      nodes[k].id = ops[o].items[j].id }) = 1

\* The last stage of a node of this format
LastStage(fmt) == IF isCarousel(fmt) THEN "carousel" ELSE "image"

\* C12: within one creative node's generation the style stage, when it runs,
\* has completed before the copy stage and the image stage start, the copy
\* stage before the image stage, and carousel expansion starts only after
\* the primary image stage has completed; the handler awaits one stage of
\* the node at a time and passes from each to the next in this order.
C12_StageOrder ==
    /\ [](\A o \in Batches :
            LET op == ops[o]
                fmt == op.items[op.i].format
            IN  /\ op.pc \in { "delay", "style", "copy", "image", "carousel" }
                /\ op.pc = "style" => isCarousel(fmt) /\ ~op.adCopy.defined
                /\ op.pc = "copy" =>
                     /\ isCarousel(fmt) <=> op.visualStyle # ""
                     /\ ~op.adCopy.defined
                /\ op.pc \in { "image", "carousel" } =>
                     /\ isCarousel(fmt) <=> op.visualStyle # ""
                     /\ op.adCopy.defined
                /\ op.pc = "carousel" => isCarousel(fmt)
                /\ op.pc \in { "style", "copy", "image" } =>
                     op.imageUrl = Undefined /\ op.imageCount = 0)
    /\ [][\A o \in Batches :
            LET op == ops[o]
            IN  /\ Advances(o) =>
                     IF ops'[o].i = op.i
                     THEN \/ << op.pc, ops'[o].pc >> \in StageOrder
                          \/ /\ op.pc = "delay"
                             /\ ops'[o].pc \in { "style", "copy" }
                     ELSE op.pc = LastStage(op.items[op.i].format)
                /\ Leaves(o) => op.pc = LastStage(op.items[op.i].format)]_vars

C12_Witness ==
    \E o \in Batches :
      /\ ops[o].pc = "carousel"
      /\ ops[o].visualStyle = "ai visual vibe"
      /\ ops[o].adCopy.defined
      /\ ops[o].imageCount = 1

\* A step in which executeGeneration is entered
BatchStarted ==
    /\ Len(ops') = Len(ops) + 1
    /\ ops'[Len(ops')].kind = "batch"

\* C13: in a batch of k formats, all k creative nodes (loading flag true)
\* and all k edges parent->child are in the store before the first model
\* call of the batch is issued: the step that leaves the handler awaiting
\* its first call has added them, and every sibling whose generation has
\* not finished is in the store with its edge, and loading (where no other
\* batch shares its ids).
C13_SkeletonsFirst ==
    /\ [][BatchStarted =>
            LET op == ops'[Len(ops')]
                added == SubSeq(nodes', Len(nodes) + 1, Len(nodes'))
                linked == SubSeq(edges', Len(edges) + 1, Len(edges'))
            IN  /\ op.i = 1
                /\ op.pc \in { "style", "copy" }
                /\ op.inputTokens = 0 /\ op.outputTokens = 0
                /\ Len(added) = Len(op.items)
                /\ Len(linked) = Len(op.items)
                /\ \A j \in 1..Len(op.items) :
                     /\ added[j].id = op.items[j].id
                     /\ added[j].format = op.items[j].format
                     /\ added[j].type = "CREATIVE"
                     /\ added[j].parentId = op.target
                     /\ added[j].isLoading
                     /\ linked[j].source = op.target
                     /\ linked[j].target = added[j].id]_vars
    /\ [](\A o \in Batches :
            \A j \in ops[o].i..Len(ops[o].items) :
              /\ OwnIds(o) => Find(nodes, ops[o].items[j].id).isLoading
              /\ \E k \in 1..Len(nodes) :
                   /\ nodes[k].id = ops[o].items[j].id
                   /\ nodes[k].parentId = ops[o].target
              /\ \E e \in 1..Len(edges) :
                   /\ edges[e].source = ops[o].target
                   /\ edges[e].target = ops[o].items[j].id)

C13_Witness ==
    \E o \in Batches :
      /\ Len(ops[o].items) = 2
      /\ ops[o].i = 1
      /\ ops[o].pc = "style"
      /\ OwnIds(o)
      /\ \A j \in 1..2 : Find(nodes, ops[o].items[j].id).isLoading

\* A skeleton no stage has started on
Untouched(id) ==
    /\ Find(nodes, id).isLoading
    /\ Find(nodes, id).description = "Initializing Generation..."

\* C14: within one batch the siblings are processed strictly one at a time
\* in selection order: while the handler works on sibling i, every earlier
\* sibling has finished (succeeded or failed) and no stage of a later one
\* has started; the handler passes from sibling i to sibling i + 1 only,
\* into the pacing delay, and no stage of sibling i + 1 starts before that
\* delay has elapsed.  (For a batch whose ids no other batch shares.)
C14_OneAtATime ==
    /\ [](\A o \in Batches :
            LET op == ops[o]
            IN  OwnIds(o) =>
                  /\ \A j \in 1..(op.i - 1) :
                       ~Find(nodes, op.items[j].id).isLoading
                  /\ \A j \in (op.i + 1)..Len(op.items) :
                       Untouched(op.items[j].id)
                  /\ op.pc = "delay" =>
                       op.i > 1 /\ Untouched(op.items[op.i].id)
                  /\ op.pc # "delay" => ~Untouched(op.items[op.i].id))
    /\ [][\A o \in Batches :
            (Advances(o) /\ ops'[o].i # ops[o].i) =>
               /\ ops'[o].i = ops[o].i + 1
               /\ ops'[o].pc = "delay"
               /\ ops'[o].items = ops[o].items]_vars

C14_Witness ==
    \E o \in Batches :
      /\ ops[o].pc = "delay"
      /\ ops[o].i = 2
      /\ OwnIds(o)
      /\ Find(nodes, ops[o].items[1].id).description = "Generation Failed"
      /\ Untouched(ops[o].items[2].id)

\* C17: when a model call inside a stage of a creative node's generation
\* fails with a terminal error, the node ends in the failed state: its
\* generation goes no further, its loading flag is false, it carries the
\* failure description, and the content of the stages completed before the
\* failure (the ad copy when the image stage fails) is stored on it.
C17_FailureFailsNode ==
    \A o \in Batches :
      ops[o].failed # {} =>
        /\ ops[o].pc = "delay"
        /\ LET node == Find(nodes, ops[o].items[ops[o].i - 1].id)
           IN  /\ ~node.isLoading
               /\ node.description = "Generation Failed"
               /\ ops[o].adCopy.primaryText # Undefined =>
                    node.adCopy = ops[o].adCopy

(***************************************************************************)
(* Properties of the node/edge store (Spec)                                *)
(***************************************************************************)
\* The generated content of a node
Content(n) ==
    << n.format, n.imageUrl, n.carouselImages, n.adCopy, n.styleContext,
       n.inputTokens, n.outputTokens, n.estimatedCost >>

\* A step that adds one node in the scaling stage: a promotion
Promoted ==
    /\ Len(nodes') = Len(nodes) + 1
    /\ nodes'[Len(nodes')].stage = "SCALING"

\* C1: promote on a creative node leaves the original in the store with
\* ghost = true, stage = testing and its generated content unchanged, and
\* adds exactly one node, in the scaling stage, whose generated content is
\* the original's and whose id differs from the id of every node already in
\* the store.
C1_Promote ==
    [][Promoted =>
        LET vault == nodes'[Len(nodes')]
        IN  /\ \E k \in 1..Len(nodes) : vault.id = "vault-" \o nodes[k].id
            /\ \A k \in 1..Len(nodes) :
                 /\ vault.id = "vault-" \o nodes[k].id =>
                      /\ nodes'[k].isGhost
                      /\ nodes'[k].stage = "TESTING"
                      /\ Content(nodes'[k]) = Content(nodes[k])
                      /\ Content(vault) = Content(nodes[k])
                 /\ nodes[k].id # vault.id]_vars

\* A step in which the remix handler is entered on a ready source
Remixed ==
    /\ Len(ops') = Len(ops) + 1
    /\ ops'[Len(ops')].kind = "remix"
    /\ ~ops'[Len(ops')].src.isLoading

\* C2: remix on a ready creative node adds exactly 3 creative nodes whose
\* parent is the source, adds exactly one edge source->child for each of
\* them, and gives them the formats source, source and a pivot format that
\* differs from the source's; no format is its own pivot.
C2_Remix ==
    [][Remixed =>
        LET source == ops'[Len(ops')].src
            added == SubSeq(nodes', Len(nodes) + 1, Len(nodes'))
            linked == SubSeq(edges', Len(edges) + 1, Len(edges'))
        IN  /\ SubSeq(nodes', 1, Len(nodes)) =
                 updateNode(nodes, source.id, [isLoading |-> TRUE])
            /\ SubSeq(edges', 1, Len(edges)) = edges
            /\ Len(added) = 3
            /\ Len(linked) = 3
            /\ \A j \in 1..3 :
                 /\ added[j].type = "CREATIVE"
                 /\ added[j].parentId = source.id
                 /\ linked[j].source = source.id
                 /\ linked[j].target = added[j].id
                 /\ \A i \in 1..3 : added[i].id = added[j].id => i = j
            /\ added[1].format = source.format
            /\ added[2].format = source.format
            /\ added[3].format # source.format
            /\ added[3].format \in { pivotOptions[i] : i \in 1..4 }
            /\ \A f \in CreativeFormat : pivotFormat(f) # f]_vars

C2_Witness ==
    \E k \in 1..Len(ops) :
      /\ ops[k].kind = "remix"
      /\ ops[k].src.format = UGLY_VISUAL
      /\ ~ops[k].src.isLoading
      /\ \E j \in 1..Len(nodes) :
           nodes[j].parentId = ops[k].target /\ nodes[j].format = TWITTER_REPOST

\* The node a promotion step found: the first whose id the copy's id names
Original ==
    nodes[Min({ k \in 1..Len(nodes) :
                  nodes'[Len(nodes')].id = "vault-" \o nodes[k].id })]

\* A step in which a handler of one of these kinds is entered
Entered(kinds) ==
    /\ Len(ops') = Len(ops) + 1
    /\ ops'[Len(ops')].kind \in kinds

\* The node the handler entered in this step found
Source == ops'[Len(ops')].src

\* C15: once a node has been ghosted by promotion, no further generation
\* action on it (remix, promote again, regenerate) has any effect: the step
\* leaves the nodes and the edges of the store as they were.
C15_GhostInert ==
    [][(\/ Promoted /\ Original.isGhost
        \/ Entered({ "remix", "regenerate" }) /\ Source.isGhost)
       => (nodes' = nodes /\ edges' = edges)]_vars

\* C30: a ghost node is frozen: from its promotion on none of its fields
\* (image, copy, description, loading flag, metrics, tokens) changes in any
\* step, whatever the interleaving, also when a regeneration, remix or batch
\* that works on the node was in flight at the promotion and completes
\* after it.
C30_GhostFrozen ==
    [][\A k \in 1..Len(nodes) : nodes[k].isGhost => nodes'[k] = nodes[k]]_vars

\* C33: in every reachable state the ids of the nodes in the store are
\* pairwise distinct and so are the ids of the edges, also after the same
\* node was promoted twice or remixed twice, or two batches were started at
\* the same clock value.
C33_DistinctIds ==
    /\ \A k, j \in 1..Len(nodes) : nodes[k].id = nodes[j].id => k = j
    /\ \A e, d \in 1..Len(edges) : edges[e].id = edges[d].id => e = d

\* C34: no node is ever flagged both winning and losing, after any
\* sequence of simulations and promotions, the scaling copy of a node that
\* a simulation flagged as losing included.
C34_NotWinningAndLosing ==
    \A k \in 1..Len(nodes) : ~(nodes[k].isWinning /\ nodes[k].isLosing)

\* C35: a node whose stage is scaling keeps the stage scaling and is no
\* ghost, forever: no action the handler accepts, a promote requested on
\* the scaling node itself included, moves it back to testing or makes it a
\* ghost.
C35_ScalingStays ==
    [][\A k \in 1..Len(nodes) :
         (nodes[k].stage = "SCALING" /\ ~nodes[k].isGhost) =>
           (nodes'[k].stage = "SCALING" /\ ~nodes'[k].isGhost)]_vars

\* C36: no node whose stage is scaling ever has its loading flag true: a
\* vault copy is never made from a node that is loading and never becomes
\* loading.
C36_ScalingNotLoading ==
    \A k \in 1..Len(nodes) : nodes[k].stage = "SCALING" => ~nodes[k].isLoading

\* The regenerations in flight
Regenerations == { o \in 1..Len(ops) : ops[o].kind = "regenerate" }

\* The step changes nothing but the image, the loading flag and the
\* description of the nodes with this id.
OnlyRegenerates(id) ==
    /\ edges' = edges
    /\ Len(nodes') = Len(nodes)
    /\ \A k \in 1..Len(nodes) :
         IF nodes[k].id = id
         THEN [nodes'[k] EXCEPT !.imageUrl = nodes[k].imageUrl,
                                !.isLoading = nodes[k].isLoading,
                                !.description = nodes[k].description]
                = nodes[k]
         ELSE nodes'[k] = nodes[k]

C19_ReadyOnly ==
    [][(\/ Promoted /\ Original.isLoading
        \/ Entered({ "remix" }) /\ Source.isLoading)
       => (nodes' = nodes /\ edges' = edges)]_vars

Inbound(id) == { e \in 1..Len(edges) : edges[e].target = id }

\* C3: in every reachable state every non-root node has a parent reference
\* to an existing node and exactly one inbound edge, and that edge's source
\* is the node's parent.
C3_OneParentOneEdge ==
    \A k \in 1..Len(nodes) :
      nodes[k].type # "ROOT" =>
        /\ Has(nodes, nodes[k].parentId)
        /\ Cardinality(Inbound(nodes[k].id)) = 1
        /\ \A e \in Inbound(nodes[k].id) : edges[e].source = nodes[k].parentId

\* The images stored on a node: the cover if present and the carousel's
Images(n) ==
    (IF n.imageUrl # Undefined THEN 1 ELSE 0) + Len(n.carouselImages)

\* What the end of a generation stores of its accounting
Accounts(n) == << n.inputTokens, n.outputTokens, n.estimatedCost >>

\* C8: whenever the generation of a creative node completes and its cost is
\* stored, the stored cost is inputTokens/1e6 * 0.30 + outputTokens/1e6 *
\* 2.50 + imageCount * 0.039 (here in nano-dollars) of the token counts
\* stored on the node and the number of images stored on it.
C8_Cost ==
    [][\A k \in 1..Len(nodes) :
         (nodes[k].type = "CREATIVE" /\ Accounts(nodes'[k]) # Accounts(nodes[k])) =>
             /\ ~nodes'[k].isLoading
             /\ nodes'[k].inputTokens >= 0
             /\ nodes'[k].outputTokens >= 0
             /\ nodes'[k].estimatedCost =
                    nodes'[k].inputTokens * 300 + nodes'[k].outputTokens * 2500
                    + Images(nodes'[k]) * 39000000]_vars

C8_Witness ==
    \E k \in 1..Len(nodes) :
      /\ nodes[k].type = "CREATIVE"
      /\ ~nodes[k].isLoading
      /\ Images(nodes[k]) = 5
      /\ nodes[k].inputTokens > 0
      /\ nodes[k].estimatedCost > 5 * 39000000

\* C16: a node's inputTokens, outputTokens and estimatedCost never decrease
\* while its generation is running, and never change once its generation
\* has completed (they are stored and the loading flag is cleared), under
\* any later operation: regenerate, simulate, promote, remix, further
\* batches.
C16_CostAccounting ==
    [][\A k \in 1..Len(nodes) :
         /\ nodes'[k].inputTokens >= nodes[k].inputTokens
         /\ nodes'[k].outputTokens >= nodes[k].outputTokens
         /\ nodes'[k].estimatedCost >= nodes[k].estimatedCost
         /\ (~nodes[k].isLoading /\ nodes[k].estimatedCost # Absent) =>
               Accounts(nodes'[k]) = Accounts(nodes[k])]_vars

\* types.ts:11-16: the CAROUSEL_* values of CreativeFormat
CarouselFormats ==
    { CAROUSEL_EDUCATIONAL, CAROUSEL_TESTIMONIAL, CAROUSEL_PANORAMA,
      CAROUSEL_PHOTO_DUMP, CAROUSEL_REAL_STORY }

Expansions ==
    { o \in 1..Len(ops) : ops[o].kind \in { "expand_personas", "expand_angles" } }

\* C25: an expansion of the root into personas, or of a persona into
\* angles, adds exactly 3 children of the matching type when it returns,
\* each with exactly one edge, which comes from the expanded node; this
\* holds however the synthesis call went, its fallback included.
C25_ThreeChildren ==
    [][\A o \in Expansions :
         Leaves(o) =>
           /\ Len(nodes') = Len(nodes) + 3
           /\ Len(edges') = Len(edges) + 3
           /\ \A k \in (Len(nodes) + 1)..Len(nodes') :
                /\ nodes'[k].parentId = ops[o].target
                /\ nodes'[k].type = IF ops[o].kind = "expand_personas"
                                    THEN "PERSONA" ELSE "ANGLE"
                /\ \E e \in (Len(edges) + 1)..Len(edges') :
                     /\ edges'[e].source = ops[o].target
                     /\ edges'[e].target = nodes'[k].id
                     /\ \A d \in (Len(edges) + 1)..Len(edges') :
                          edges'[d].target = nodes'[k].id => d = e]_vars

\* The nodes a step has appended
Added == SubSeq(nodes', Len(nodes) + 1, Len(nodes'))

\* C27, for the expansions: the token counts recorded on the children that
\* one persona or angle expansion creates add up to the token counts the
\* synthesis stage returned, for every number of returned items, and no
\* recorded count is negative.
C27_CountsAddUp ==
    [][\A o \in Expansions :
         Leaves(o) =>
           \E s \in AnyLengthSettlements :
             LET result == Synthesis(ops[o], s)
             IN  /\ result.data.isArray
                 /\ result.data.items =
                      [j \in 1..Len(Added) |-> Added[j].description]
                 /\ SumField(Added, "inputTokens") = result.inputTokens
                 /\ SumField(Added, "outputTokens") = result.outputTokens
                 /\ \A j \in 1..Len(Added) :
                      Added[j].inputTokens >= 0 /\ Added[j].outputTokens >= 0]_vars

\* The remixes in flight whose source was ready and had ad copy when the
\* handler found it
ReadyRemixes ==
    { o \in 1..Len(ops) :
        /\ ops[o].kind = "remix"
        /\ ops[o].src.adCopy.defined
        /\ ~ops[o].src.isLoading }

\* C29: in a remix of a ready source that has ad copy, the copy stage runs
\* for the copy-only variation only and the others reuse the source's copy
\* unchanged; the style stage runs for the visual-only variation only and
\* the others keep the source's saved style context; the image stage runs
\* once for every variation, against the source's format for the first two
\* and against the pivot format for the third.
C29_RemixStages ==
    /\ [](\A o \in ReadyRemixes :
            LET op == ops[o]
                v == op.items[op.i]
            IN  /\ Len(op.items) = 3
                /\ op.pc \in { "style", "copy", "image" }
                /\ v.type = << "COPY", "VISUAL", "FORMAT" >>[op.i]
                /\ v.format = IF op.i < 3 THEN op.src.format
                              ELSE pivotFormat(op.src.format)
                /\ op.pc = "copy" => v.type = "COPY"
                /\ op.pc = "style" => v.type = "VISUAL"
                /\ (op.pc = "image" /\ v.type # "COPY") =>
                     op.adCopy = op.src.adCopy
                /\ (op.pc = "image" /\ v.type # "VISUAL") =>
                     op.visualStyle = currentStyle(op.src)
                /\ op.pc = "image" =>
                     /\ op.imageCount = 0
                     /\ op.inputTokens =
                          IF v.type = "FORMAT" THEN 0
                          ELSE Usage.promptTokenCount)
    /\ [][\A o \in ReadyRemixes :
            /\ Advances(o) =>
                 IF ops'[o].i = ops[o].i
                 THEN ops[o].pc \in { "style", "copy" } /\ ops'[o].pc = "image"
                 ELSE ops[o].pc = "image" /\ ops'[o].i = ops[o].i + 1
            /\ Leaves(o) => ops[o].pc = "image" /\ ops[o].i = 3]_vars

\* The remix of a ready source with ad copy has reached the image stage of
\* its third variation, with the source's copy, for the pivot format.
C29_Witness ==
    \E o \in ReadyRemixes :
      /\ ops[o].i = 3
      /\ ops[o].pc = "image"
      /\ ops[o].adCopy = ops[o].src.adCopy
      /\ ops[o].items[3].format # ops[o].src.format
      /\ \E k \in 1..Len(nodes) :
           /\ nodes[k].id = ops[o].items[1].id
           /\ nodes[k].adCopy.defined
           /\ ~nodes[k].isLoading

\* A step in which the simulation's timer fires
SimulationStep == simulating /\ ~simulating'

\* The metrics node k had before the step (none if the step adds it)
MetricsBefore(k) == IF k <= Len(nodes) THEN nodes[k].metrics ELSE NoMetrics

\* C32: a node carries performance metrics only if a simulation step
\* assigned them to it or it is the scaling copy created by a promotion; a
\* simulation step assigns metrics and the winning and losing flags exactly
\* to the creative nodes that are not loading, are in the testing stage and
\* are not ghosts, and leaves every other node and every edge unchanged.
C32_MetricsFromSimulation ==
    /\ \A k \in 1..Len(nodes) : nodes[k].metrics = NoMetrics
    /\ [][/\ \A k \in 1..Len(nodes') :
               nodes'[k].metrics # MetricsBefore(k) =>
                 \/ k <= Len(nodes) /\ SimulationStep
                 \/ /\ k > Len(nodes)
                    /\ nodes'[k].stage = "SCALING"
                    /\ \E j \in 1..Len(nodes) :
                         nodes'[k].id = "vault-" \o nodes[j].id
          /\ SimulationStep =>
               /\ edges' = edges
               /\ Len(nodes') = Len(nodes)
               /\ \A k \in 1..Len(nodes) :
                    IF /\ nodes[k].type = "CREATIVE"
                       /\ ~nodes[k].isLoading
                       /\ nodes[k].stage = "TESTING"
                       /\ ~nodes[k].isGhost
                    THEN \E m \in Draws :
                           nodes'[k] =
                             [nodes[k] EXCEPT
                                !.metrics = m,
                                !.isWinning = m.spend > 400 /\ m.roas10 > 22,
                                !.isLosing = m.spend > 300 /\ m.roas10 < 15]
                    ELSE nodes'[k] = nodes[k]]_vars

\* A simulation has measured one remix variation while its siblings were
\* still loading, and these carry no metrics.
C32_Witness ==
    \E k, j \in 1..Len(nodes) :
      /\ nodes[k].type = "CREATIVE"
      /\ nodes[k].metrics \in Draws
      /\ nodes[j].type = "CREATIVE"
      /\ nodes[j].isLoading
      /\ nodes[j].metrics = NoMetrics

(***************************************************************************)
(* Properties of handlers that overlap (RaceSpec)                          *)
(***************************************************************************)
\* The fields of its skeleton nodes that a batch or a remix assigns in its
\* final updateNode (part_001:343-353, 534-546), and those a regeneration
\* assigns (lines 205, 216-226)
SettledFields ==
    { "isLoading", "description", "imageUrl", "carouselImages", "adCopy",
      "inputTokens", "outputTokens", "estimatedCost", "styleContext" }

RegeneratedFields == { "isLoading", "description", "imageUrl" }

\* The fields of node records, as <<node id, field>>, that a suspended
\* handler assigns between now and its return: the loading flag of the node
\* it was started on, and the fields of the nodes it has still to finish.
Writes(op) ==
    IF op.kind = "regenerate"
    THEN { <<op.target, f>> : f \in RegeneratedFields }
    ELSE { <<op.target, "isLoading">> } \cup
         { <<op.items[j].id, f>> :
             j \in op.i..Len(op.items), f \in SettledFields }

\* C23: under every interleaving of handlers started by separate user
\* actions, no field of a node record is written by two handlers that are
\* in flight at the same time: what two suspended handlers write is disjoint.
C23_DisjointWrites ==
    \A o1, o2 \in 1..Len(ops) :
      o1 # o2 => Writes(ops[o1]) \cap Writes(ops[o2]) = {}

(***************************************************************************)
(* Liveness: every model call returns or throws, every timer fires         *)
(***************************************************************************)
Fairness ==
    /\ WF_vars(ResumeExpand)
    /\ WF_vars(ResumeBatch)
    /\ WF_vars(ResumeRemix)
    /\ WF_vars(ResumeRegenerate)

\* The handlers that set and clear loading flags.  The clock, the
\* simulation and promote start no handler and set no flag (promote copies
\* the flag of the node it finds into the copy it adds).
LiveNext ==
    \/ StartExpand
    \/ ResumeExpand
    \/ StartBatch
    \/ ResumeBatch
    \/ StartRemix
    \/ ResumeRemix
    \/ StartRegenerate
    \/ ResumeRegenerate

LiveSpec == Init /\ [][LiveNext]_vars /\ Fairness

\* A handler in flight has the node as its target or as one of its skeletons
Busy(id) ==
    \E o \in 1..Len(ops) :
      \/ ops[o].target = id
      \/ \E j \in 1..Len(ops[o].items) : ops[o].items[j].id = id

\* A copy that promote made: its id is "vault-" and the id of its original
IsCopy(id) == \E k \in 1..Len(nodes) : id = "vault-" \o nodes[k].id

\* The ids a handler works on
Ids(op) == { op.target } \cup { op.items[j].id : j \in 1..Len(op.items) }

\* A step in which the handler ops[o] returns
Returns(o) == Len(ops) > 0 /\ ops' = RemoveAt(ops, o)

\* C6: every node whose loading flag a handler set to true (the skeletons of
\* a batch or a remix, a regenerated node, the parent or source of an
\* expansion, batch or remix) eventually has its loading flag false: every
\* handler in flight returns, whatever the stages return; when it returns,
\* the nodes it worked on are not loading unless another handler still works
\* on them; and a node is not loading while no handler works on it.
C6_LoadingEnds ==
    /\ (ops # <<>>) ~> (ops = <<>>)
    /\ [][\A o \in 1..Len(ops) :
            Returns(o) =>
              \A k \in 1..Len(nodes') :
                (nodes'[k].id \in Ids(ops[o])
                 /\ \A p \in 1..Len(ops') : nodes'[k].id \notin Ids(ops'[p]))
                    => ~nodes'[k].isLoading]_vars
    /\ [](\A k \in 1..Len(nodes) :
            (nodes[k].isLoading /\ ~IsCopy(nodes[k].id)) => Busy(nodes[k].id))

C6_Witness ==
    /\ ops = <<>>
    /\ \E k \in 1..Len(nodes) :
         /\ nodes[k].type = "CREATIVE"
         /\ nodes[k].description = "Remix Failed"
         /\ ~nodes[k].isLoading
    /\ \E k \in 1..Len(nodes) :
         /\ nodes[k].type = "CREATIVE"
         /\ nodes[k].description = "Generation Failed"
         /\ ~nodes[k].isLoading

====
